---- MODULE Spec2Model ----
(***************************************************************************)
(* Chord-theory engine of the Orchid visualizer: the chord detector        *)
(* (utils/chord/chordDetection.ts), the note/MIDI mapping and the voicing  *)
(* generator (voicingUtils.ts), modelled from the TypeScript source.       *)
(***************************************************************************)
EXTENDS Integers, Sequences, FiniteSets, TLC

VARIABLES notes, impl, result, pc,
          vNote, vQuality, currentValue, voicingIndex, voicings, vpc,
          call, tables, ret, cpc,
          activeNotes, noteDisplayText, keyColors, bassNotes, chordInfo,
          midiMessage, sounding, delivered

vars == <<notes, impl, result, pc,
          vNote, vQuality, currentValue, voicingIndex, voicings, vpc,
          call, tables, ret, cpc,
          activeNotes, noteDisplayText, keyColors, bassNotes, chordInfo,
          midiMessage, sounding, delivered>>

detVars == <<notes, impl, result, pc>>
voiVars == <<vNote, vQuality, currentValue, voicingIndex, voicings, vpc>>
\* a call of one of the pure functions: its arguments, the tables it reads, its result
callVars == <<call, tables, ret, cpc>>
\* the PianoKeyboard component: activeNotesRef.current, the four pieces of
\* React state its MIDI handler sets, the message last delivered to
\* onmidimessage, the pairs <<channel, note>> whose most recent note message
\* was a note-on, and the number of messages delivered
kbdVars == <<activeNotes, noteDisplayText, keyColors, bassNotes, chordInfo,
             midiMessage, sounding, delivered>>

(***************************************************************************)
(* Bounds of the model.                                                    *)
(***************************************************************************)
\* lowest MIDI note of the windows the input lists are drawn from
WindowLo == 48
\* lists in arbitrary order, repetitions allowed: at most MaxFree notes out of
\* WindowLo .. WindowLo + FreeSpan
FreeSpan == 9
MaxFree == 4
\* ascending chords: at most MaxChord distinct notes out of
\* WindowLo .. WindowLo + NoteSpan
NoteSpan == 14
MaxChord == 4
\* the triads of the triad family have their lowest chord root n in
\* TriadLo .. TriadLo + TriadRoots - 1
TriadLo == 36
TriadRoots == 24

(***************************************************************************)
(* JavaScript arithmetic.                                                  *)
(***************************************************************************)
\* a % b of JavaScript: the remainder takes the sign of the dividend
JsMod(a, b) == IF a >= 0 THEN a % b ELSE -((-a) % b)

(***************************************************************************)
(* constants/chord.constants.ts                                            *)
(***************************************************************************)
BASE_NOTES == <<"C", "C#", "D", "D#", "E", "F", "F#", "G", "G#", "A", "A#", "B">>

ChordTypes == <<"Major", "Minor", "Diminished", "Sus4">>

CHORD_DEFINITIONS ==
  [t \in {"Major", "Minor", "Diminished", "Sus4"} |->
     CASE t = "Major"      -> [fullName |-> "Major", shortName |-> "Maj", intervals |-> <<0, 4, 7>>]
       [] t = "Minor"      -> [fullName |-> "Minor", shortName |-> "Min", intervals |-> <<0, 3, 7>>]
       [] t = "Diminished" -> [fullName |-> "Diminished", shortName |-> "Dim", intervals |-> <<0, 3, 6>>]
       [] t = "Sus4"       -> [fullName |-> "Sus4", shortName |-> "Sus", intervals |-> <<0, 5, 7>>]]

NOTE_OFFSETS ==
  [n \in {"C", "D", "E", "F", "G", "A", "B"} |->
     CASE n = "C" -> -11 [] n = "D" -> -9 [] n = "E" -> -7 [] n = "F" -> -6
       [] n = "G" -> -4 [] n = "A" -> -2 [] n = "B" -> 0]

\* BASE_NOTES.indexOf(name): 0-based, -1 when absent
IndexOfNote(name) ==
  IF \E k \in 1..Len(BASE_NOTES) : BASE_NOTES[k] = name
  THEN (CHOOSE k \in 1..Len(BASE_NOTES) : BASE_NOTES[k] = name) - 1
  ELSE -1

(***************************************************************************)
(* utils/midi/midiUtils.ts                                                 *)
(***************************************************************************)
\* BASE_NOTES[noteIndex] ?? "C"
NoteAt(noteIndex) ==
  IF noteIndex \in 0..(Len(BASE_NOTES) - 1) THEN BASE_NOTES[noteIndex + 1] ELSE "C"

\* the name with the octave counted from 0 at MIDI note 0
getMIDINoteNameOctaveFromZero(midiNote) ==
  LET octave == midiNote \div 12
      noteIndex == JsMod(midiNote, 12)
  IN  NoteAt(noteIndex) \o ToString(octave)

getMIDINoteName(midiNote) ==
  LET octave == (midiNote \div 12) - 1
      noteIndex == JsMod(midiNote, 12)
  IN  NoteAt(noteIndex) \o ToString(octave)

getBaseNoteName(midiNote) == NoteAt(JsMod(midiNote, 12))

\* null: the value returned for "no chord identified", "no message", "no voicing"
Null == [isNull |-> TRUE]

\* an absent value (an optional field left unset, an argument not given, a
\* byte beyond the end of the data) and a present one
Undefined == [isUndefined |-> TRUE]

Defined(v) == [isUndefined |-> FALSE, value |-> v]

\* data[i] of a Uint8Array, i counted from 0
ByteAt(data, i) == IF i < Len(data) THEN Defined(data[i + 1]) ELSE Undefined

\* the type of a note-on message that ignores the velocity
NoteOnTypeAlwaysOn(velocityByte) == "note-on"

\* velocityByte > 0 ? "note-on" : "note-off"
NoteOnType(velocityByte) == IF velocityByte > 0 THEN "note-on" ELSE "note-off"

\* the record parseMIDIMessage returns
MIDIMessage(data, timestamp, type, noteNumber, noteName, velocity, controlNumber, controlValue, programNumber) ==
  [isNull |-> FALSE,
   timestamp |-> timestamp,
   channel |-> (data[1] % 16) + 1,
   type |-> type,
   noteNumber |-> noteNumber,
   noteName |-> noteName,
   velocity |-> velocity,
   controlNumber |-> controlNumber,
   controlValue |-> controlValue,
   programNumber |-> programNumber,
   rawData |-> data]

\* noteNumber !== undefined ? getMIDINoteName(noteNumber) : undefined
NoteNameOf(noteNumber) ==
  IF noteNumber.isUndefined THEN Undefined ELSE Defined(getMIDINoteName(noteNumber.value))

\* parseMIDIMessage of utils/midi/midiUtils.ts
midiUtilsParseMIDIMessage(data, timestamp) ==
  IF Len(data) < 1 THEN Null
  ELSE
    LET messageType == data[1] \div 16
    IN  CASE messageType = 9 ->
               IF Len(data) < 3 THEN Null
               ELSE MIDIMessage(data, timestamp, NoteOnType(data[3]),
                                Defined(data[2]), Defined(getMIDINoteName(data[2])),
                                Defined(data[3]), Undefined, Undefined, Undefined)
          [] messageType = 8 ->
               IF Len(data) < 3 THEN Null
               ELSE MIDIMessage(data, timestamp, "note-off",
                                Defined(data[2]), Defined(getMIDINoteName(data[2])),
                                Defined(data[3]), Undefined, Undefined, Undefined)
          [] messageType = 11 ->
               IF Len(data) < 3 THEN Null
               ELSE MIDIMessage(data, timestamp, "control-change",
                                Undefined, Undefined, Undefined,
                                Defined(data[2]), Defined(data[3]), Undefined)
          [] messageType = 12 ->
               IF Len(data) < 2 THEN Null
               ELSE MIDIMessage(data, timestamp, "program-change",
                                Undefined, Undefined, Undefined,
                                Undefined, Undefined, Defined(data[2]))
          [] OTHER ->
               MIDIMessage(data, timestamp, "unknown", Undefined, Undefined, Undefined,
                           Undefined, Undefined, Undefined)

\* parseMIDIMessage of chordUtils.ts
chordUtilsParseMIDIMessage(data, timestamp) ==
  IF Len(data) < 1 THEN Null
  ELSE
    LET messageType == data[1] \div 16
    IN  CASE messageType = 9 ->
               IF ByteAt(data, 2).isUndefined THEN Null
               ELSE MIDIMessage(data, timestamp, NoteOnType(data[3]),
                                ByteAt(data, 1), NoteNameOf(ByteAt(data, 1)),
                                ByteAt(data, 2), Undefined, Undefined, Undefined)
          [] messageType = 8 ->
               MIDIMessage(data, timestamp, "note-off",
                           ByteAt(data, 1), NoteNameOf(ByteAt(data, 1)),
                           ByteAt(data, 2), Undefined, Undefined, Undefined)
          [] messageType = 11 ->
               MIDIMessage(data, timestamp, "control-change",
                           Undefined, Undefined, Undefined,
                           ByteAt(data, 1), ByteAt(data, 2), Undefined)
          [] messageType = 12 ->
               MIDIMessage(data, timestamp, "program-change",
                           Undefined, Undefined, Undefined,
                           Undefined, Undefined, ByteAt(data, 1))
          [] OTHER ->
               MIDIMessage(data, timestamp, "unknown", Undefined, Undefined, Undefined,
                           Undefined, Undefined, Undefined)

parseMIDIMessage(module, data, timestamp) ==
  IF module = "chordUtils" THEN chordUtilsParseMIDIMessage(data, timestamp)
  ELSE midiUtilsParseMIDIMessage(data, timestamp)

(***************************************************************************)
(* utils/chord/chordDetection.ts                                           *)
(***************************************************************************)
ROOT_POSITION_INTERVALS == [t \in DOMAIN CHORD_DEFINITIONS |-> CHORD_DEFINITIONS[t].intervals]

\* a second inversion whose third is not raised by an octave
generateInversionsThirdNotRaised(rootPositionIntervals) ==
  IF Len(rootPositionIntervals) # 3
  THEN [threw |-> TRUE, inversions |-> <<>>]
  ELSE LET root == rootPositionIntervals[1]
           second == rootPositionIntervals[2]
           third == rootPositionIntervals[3]
       IN  [threw |-> FALSE,
            inversions |-> << <<root, second, third>>,
                              <<second, third, root + 12>>,
                              <<third, root + 12, second>> >>]

\* throws on a list whose length is not 3: threw = TRUE and no patterns
generateInversions(rootPositionIntervals) ==
  IF Len(rootPositionIntervals) # 3
  THEN [threw |-> TRUE, inversions |-> <<>>]
  ELSE LET root == rootPositionIntervals[1]
           second == rootPositionIntervals[2]
           third == rootPositionIntervals[3]
       IN  [threw |-> FALSE,
            inversions |-> << <<root, second, third>>,
                              <<second, third, root + 12>>,
                              <<third, root + 12, second + 12>> >>]

CHORD_PATTERNS ==
  [t \in DOMAIN CHORD_DEFINITIONS |-> generateInversions(ROOT_POSITION_INTERVALS[t]).inversions]

\* a getChordInfo that forgets to drop the repeated MIDI numbers
UniqueSeqKeepsRepeats(xs) == xs

\* [...new Set(xs)]: first occurrences, in order
RECURSIVE UniqueSeq(_)
UniqueSeq(xs) ==
  IF xs = <<>> THEN <<>>
  ELSE LET init == UniqueSeq(SubSeq(xs, 1, Len(xs) - 1))
           last == xs[Len(xs)]
       IN  IF \E k \in 1..Len(init) : init[k] = last THEN init ELSE Append(init, last)

\* [...xs].sort((a, b) => a - b) on a list of distinct numbers
RECURSIVE SortAsc(_)
SortAsc(xs) ==
  IF xs = <<>> THEN <<>>
  ELSE LET m == CHOOSE k \in 1..Len(xs) : \A j \in 1..Len(xs) : xs[k] <= xs[j]
       IN  <<xs[m]>> \o SortAsc(SubSeq(xs, 1, m - 1) \o SubSeq(xs, m + 1, Len(xs)))

\* Math.min(...xs) of a non-empty list
MinOf(xs) == CHOOSE v \in {xs[k] : k \in 1..Len(xs)} : \A k \in 1..Len(xs) : v <= xs[k]

calculateIntervals(ns) ==
  IF Len(ns) = 0 THEN <<>> ELSE [k \in 1..Len(ns) |-> JsMod(ns[k], 12)]

\* a normalisation that subtracts the root without adding 12 first, so that
\* JavaScript's % leaves the tones below the root negative
normalizeIntervalsNoOffset(intervals, rootIndex) ==
  LET tail == SubSeq(intervals, rootIndex + 1, Len(intervals))
      head == SubSeq(intervals, 1, rootIndex)
      rotatedIntervals == tail \o [k \in 1..Len(head) |-> head[k] + 12]
  IN  IF Len(rotatedIntervals) = 0 THEN <<>>
      ELSE LET firstInterval == rotatedIntervals[1]
           IN  [k \in 1..Len(rotatedIntervals) |->
                  JsMod(rotatedIntervals[k] - firstInterval, 12)]

\* rootIndex is 0-based as in the source
normalizeIntervals(intervals, rootIndex) ==
  LET tail == SubSeq(intervals, rootIndex + 1, Len(intervals))
      head == SubSeq(intervals, 1, rootIndex)
      rotatedIntervals == tail \o [k \in 1..Len(head) |-> head[k] + 12]
  IN  IF Len(rotatedIntervals) = 0 THEN <<>>
      ELSE LET firstInterval == rotatedIntervals[1]
           IN  [k \in 1..Len(rotatedIntervals) |->
                  JsMod(rotatedIntervals[k] - firstInterval + 12, 12)]

\* xs.filter((interval) => interval !== 2)
RECURSIVE FilterNinths(_)
FilterNinths(xs) ==
  IF xs = <<>> THEN <<>>
  ELSE IF Head(xs) # 2 THEN <<Head(xs)>> \o FilterNinths(Tail(xs))
       ELSE FilterNinths(Tail(xs))

\* .filter(...).slice(0, 3)
TriadIntervals(normalizedIntervals) ==
  LET f == FilterNinths(normalizedIntervals)
  IN  SubSeq(f, 1, IF Len(f) < 3 THEN Len(f) ELSE 3)

\* Object.entries(CHORD_PATTERNS) flattened in iteration order: the k-th
\* (chordType, pattern) pair visited by the two nested loops
PatternEntries ==
  [k \in 1..(Len(ChordTypes) * 3) |->
     LET t == ChordTypes[((k - 1) \div 3) + 1]
     IN  [chordType |-> t, pattern |-> CHORD_PATTERNS[t][((k - 1) % 3) + 1]]]

NoMatch == [matched |-> FALSE]

\* triadIntervals.every((interval, j) => interval === pattern[j])
EveryEqual(triadIntervals, pattern) ==
  \A j \in 1..Len(triadIntervals) : j <= Len(pattern) /\ triadIntervals[j] = pattern[j]

RECURSIVE FindFrom(_, _, _)
FindFrom(triadIntervals, rootNote, k) ==
  IF k > Len(PatternEntries) THEN NoMatch
  ELSE LET e == PatternEntries[k]
       IN  IF EveryEqual(triadIntervals, e.pattern)
              /\ (e.chordType = "Sus4" => triadIntervals[2] = 5)
           THEN [matched |-> TRUE, chordType |-> e.chordType,
                 pattern |-> e.pattern, rootNote |-> rootNote]
           ELSE FindFrom(triadIntervals, rootNote, k + 1)

findChordPattern(normalizedIntervals, rootNote) ==
  LET triadIntervals == TriadIntervals(normalizedIntervals)
  IN  IF Len(triadIntervals) < 3 THEN NoMatch
      ELSE FindFrom(triadIntervals, rootNote, 1)

\* an inversion text that knows the perfect fifth only, not the diminished one
determineInversionPerfectFifthOnly(lowestNote, rootNote) ==
  LET lowestNoteName == getMIDINoteName(lowestNote)
      lowestNoteBase == getBaseNoteName(lowestNote)
      lowestNoteIndex == IndexOfNote(lowestNoteBase)
      rootNoteIndex == IndexOfNote(rootNote)
      interval == JsMod(lowestNoteIndex - rootNoteIndex + 12, 12)
      inversionText ==
        IF lowestNoteIndex # rootNoteIndex
        THEN IF interval = 4 \/ interval = 3 THEN "1st"
             ELSE IF interval = 7 THEN "2nd"
             ELSE IF interval = 10 \/ interval = 11 THEN "3rd"
             ELSE "Root"
        ELSE "Root"
  IN  [inversionText |-> inversionText, lowestNoteName |-> lowestNoteName]

determineInversion(lowestNote, rootNote) ==
  LET lowestNoteName == getMIDINoteName(lowestNote)
      lowestNoteBase == getBaseNoteName(lowestNote)
      lowestNoteIndex == IndexOfNote(lowestNoteBase)
      rootNoteIndex == IndexOfNote(rootNote)
      interval == JsMod(lowestNoteIndex - rootNoteIndex + 12, 12)
      inversionText ==
        IF lowestNoteIndex # rootNoteIndex
        THEN IF interval = 4 \/ interval = 3 THEN "1st"
             ELSE IF interval = 7 \/ interval = 6 THEN "2nd"
             ELSE IF interval = 10 \/ interval = 11 THEN "3rd"
             ELSE "Root"
        ELSE "Root"
  IN  [inversionText |-> inversionText, lowestNoteName |-> lowestNoteName]

\* xs.includes(v)
Includes(xs, v) == \E k \in 1..Len(xs) : xs[k] = v

\* extension flags with the two sevenths exchanged
checkExtendedIntervalsSwapped(intervals) ==
  [hasSixth |-> Includes(intervals, 9),
   hasSeventh |-> Includes(intervals, 11),
   hasMajorSeventh |-> Includes(intervals, 10),
   hasNinth |-> Includes(intervals, 2)]

checkExtendedIntervals(intervals) ==
  [hasSixth |-> Includes(intervals, 9),
   hasSeventh |-> Includes(intervals, 10),
   hasMajorSeventh |-> Includes(intervals, 11),
   hasNinth |-> Includes(intervals, 2)]

\* a ninth test that forgets to ask for more than an octave above the lowest note
NinthAboveLowestAnyOctave(sortedNotes) ==
  LET lowestNote == sortedNotes[1]
  IN  \E k \in 2..Len(sortedNotes) :
        JsMod(sortedNotes[k] - lowestNote, 12) = 2

\* sortedNotes.some((note, i) => i > 0 && note - lowest > 12 && (note - lowest) % 12 === 2)
NinthAboveLowest(sortedNotes) ==
  LET lowestNote == sortedNotes[1]
  IN  \E k \in 2..Len(sortedNotes) :
        LET interval == sortedNotes[k] - lowestNote
        IN  interval > 12 /\ JsMod(interval, 12) = 2

\* chordUtils.ts names the quality by displayName: the full name, except that
\* a Sus4 chord on the root G is named by its short code
displayName(match) ==
  IF match.chordType \in {"Major", "Minor", "Diminished"} THEN match.chordType
  ELSE IF match.chordType = "Sus4"
       THEN IF match.rootNote = "G" THEN "Sus" ELSE "Sus4"
       ELSE CHORD_DEFINITIONS[match.chordType].shortName

\* the quality text of chordName: chordDetection.ts writes match.chordType,
\* chordUtils.ts writes displayName
QualityText(module, match) ==
  IF module = "chordUtils" THEN displayName(match) ELSE match.chordType

\* the chord built once a candidate root has matched
ChordResult(module, uniqueMidiNotes, normalizedIntervals, match, hasNinth) ==
  LET inv == determineInversion(MinOf(uniqueMidiNotes), match.rootNote)
      ext == checkExtendedIntervals(normalizedIntervals)
  IN  [isNull |-> FALSE,
       chordName |-> match.rootNote \o " " \o QualityText(module, match),
       inversion |-> inv.inversionText,
       bassNote |-> inv.lowestNoteName,
       hasSixth |-> ext.hasSixth,
       hasSeventh |-> ext.hasSeventh,
       hasMajorSeventh |-> ext.hasMajorSeventh,
       hasNinth |-> hasNinth \/ ext.hasNinth]

\* a candidate loop that walks the notes from the last one to the first
RECURSIVE TryRootsFromLast(_, _, _, _, _)
TryRootsFromLast(module, uniqueMidiNotes, intervals, hasNinth, i) ==
  IF i >= Len(intervals) THEN Null
  ELSE LET j == Len(intervals) - 1 - i
           rootNote == BASE_NOTES[intervals[j + 1] + 1]
           normalizedIntervals == normalizeIntervals(intervals, j)
           match == findChordPattern(normalizedIntervals, rootNote)
       IN  IF Len(normalizedIntervals) > 0 /\ match.matched
           THEN ChordResult(module, uniqueMidiNotes, normalizedIntervals, match, hasNinth)
           ELSE TryRootsFromLast(module, uniqueMidiNotes, intervals, hasNinth, i + 1)

\* the loop "for (const [i, rootIndex] of intervals.entries())", i 0-based
RECURSIVE TryRoots(_, _, _, _, _)
TryRoots(module, uniqueMidiNotes, intervals, hasNinth, i) ==
  IF i >= Len(intervals) THEN Null
  ELSE LET rootIndex == intervals[i + 1]
       IN  IF rootIndex < 0 \/ rootIndex >= Len(BASE_NOTES)
           THEN TryRoots(module, uniqueMidiNotes, intervals, hasNinth, i + 1)
           ELSE LET rootNote == BASE_NOTES[rootIndex + 1]
                    normalizedIntervals == normalizeIntervals(intervals, i)
                    match == findChordPattern(normalizedIntervals, rootNote)
                IN  IF Len(normalizedIntervals) = 0
                    THEN TryRoots(module, uniqueMidiNotes, intervals, hasNinth, i + 1)
                    ELSE IF match.matched
                         THEN ChordResult(module, uniqueMidiNotes, normalizedIntervals,
                                          match, hasNinth)
                         ELSE TryRoots(module, uniqueMidiNotes, intervals, hasNinth, i + 1)

\* getChordInfo as written in the given module
ChordInfoOf(module, ns) ==
  IF Len(ns) < 3 THEN Null
  ELSE LET uniqueMidiNotes == UniqueSeq(ns)
       IN  IF Len(uniqueMidiNotes) < 3 THEN Null
           ELSE LET sortedNotes == SortAsc(uniqueMidiNotes)
                    hasNinth == NinthAboveLowest(sortedNotes)
                    intervals == calculateIntervals(uniqueMidiNotes)
                IN  IF Len(intervals) = 0 THEN Null
                    ELSE TryRoots(module, uniqueMidiNotes, intervals, hasNinth, 0)

\* utils/chord/chordDetection.ts
getChordInfo(ns) == ChordInfoOf("chordDetection", ns)

\* chordUtils.ts, the module PianoKeyboard.tsx imports
chordUtilsGetChordInfo(ns) == ChordInfoOf("chordUtils", ns)

(***************************************************************************)
(* voicingUtils.ts                                                         *)
(***************************************************************************)
\* while (currentValue <= 60)
LoopLimit == 60
\* if (newValue <= 60)
VoicingLimit == 60

\* the table and the next free index while generateVoicings runs; the table
\* is a Record<number, entry>: a function from the indices used to entries
EmptyTable == <<>>

\* an entry whose inversion and octave count from the index itself
TableEntryFromIndex(newValue, index) ==
  [voicing |-> newValue, inversion |-> index % 3, octave |-> index \div 3]

TableEntry(newValue, index) ==
  [voicing |-> newValue, inversion |-> (index + 1) % 3, octave |-> (index + 1) \div 3]

\* a forEach body that stores every value, also those above the limit
StoreVoicingUnlimited(st, newValue) ==
  [voicings |-> (st.voicingIndex :> TableEntry(newValue, st.voicingIndex)) @@ st.voicings,
   voicingIndex |-> st.voicingIndex + 1]

\* a forEach body whose limit excludes 60 itself
StoreVoicingBelowLimit(st, newValue) ==
  IF newValue < VoicingLimit
  THEN [voicings |-> (st.voicingIndex :> TableEntry(newValue, st.voicingIndex)) @@ st.voicings,
        voicingIndex |-> st.voicingIndex + 1]
  ELSE st

\* the body of intervals.forEach for one interval
StoreVoicing(st, newValue) ==
  IF newValue <= VoicingLimit
  THEN [voicings |-> (st.voicingIndex :> TableEntry(newValue, st.voicingIndex)) @@ st.voicings,
        voicingIndex |-> st.voicingIndex + 1]
  ELSE st

\* intervals.forEach(...) of one pass of the while loop, from the k-th interval on
RECURSIVE ForEachInterval(_, _, _, _)
ForEachInterval(st, base, intervals, k) ==
  IF k > Len(intervals) THEN st
  ELSE ForEachInterval(StoreVoicing(st, base + intervals[k]), base, intervals, k + 1)

\* the while loop of generateVoicings from the pass that starts at currentValue
RECURSIVE WhileLoop(_, _, _)
WhileLoop(st, current, intervals) ==
  IF current <= LoopLimit
  THEN WhileLoop(ForEachInterval(st, current, intervals, 1), current + 12, intervals)
  ELSE st

generateVoicings(baseOffset, intervals) ==
  WhileLoop([voicings |-> EmptyTable, voicingIndex |-> 0], baseOffset, intervals).voicings

\* a number returned where null may be returned instead
Number(v) == [isNull |-> FALSE, value |-> v]

MaxOf(S) == CHOOSE x \in S : \A y \in S : y <= x

\* Object.values(voicings).filter((v) => v.voicing < 2), as the set of values
ValidVoicings(table) ==
  {table[i].voicing : i \in {j \in DOMAIN table : table[j].voicing < 2}}

getFirstVoicing(table) ==
  IF ValidVoicings(table) # {} THEN Number(MaxOf(ValidVoicings(table))) ELSE Null

\* the names every plain object inherits from Object.prototype
ObjectPrototypeKeys ==
  {"constructor", "hasOwnProperty", "isPrototypeOf", "propertyIsEnumerable",
   "toLocaleString", "toString", "valueOf", "__proto__"}

\* object[key] of a plain object: an own property, a function or object
\* inherited from Object.prototype, or undefined
PropertyOf(object, key) ==
  IF key \in DOMAIN object THEN [kind |-> "own", value |-> object[key]]
  ELSE IF key \in ObjectPrototypeKeys THEN [kind |-> "inherited"]
  ELSE [kind |-> "undefined"]

\* getVoicingsForNote: threw = TRUE when the call ends in an exception.
\* An inherited interval value is truthy and not iterable, so [...intervals]
\* throws a TypeError; an inherited base offset compares as NaN, so the loop
\* of generateVoicings never runs.
getVoicingsForNote(note, chordQuality) ==
  LET intervals == PropertyOf(ROOT_POSITION_INTERVALS, chordQuality)
      baseOffset == PropertyOf(NOTE_OFFSETS, note)
  IN  IF intervals.kind = "undefined" THEN [threw |-> FALSE, table |-> EmptyTable]
      ELSE IF baseOffset.kind = "undefined" THEN [threw |-> FALSE, table |-> EmptyTable]
      ELSE IF intervals.kind = "inherited" THEN [threw |-> TRUE, table |-> EmptyTable]
      ELSE IF baseOffset.kind = "inherited" THEN [threw |-> FALSE, table |-> EmptyTable]
      ELSE [threw |-> FALSE, table |-> generateVoicings(baseOffset.value, intervals.value)]

\* Object.entries(CHORD_DEFINITIONS).find(([_, def]) => def.shortName === quality)?.[0]
ChordTypeOfShortName(quality) ==
  LET hits == {k \in 1..Len(ChordTypes) : CHORD_DEFINITIONS[ChordTypes[k]].shortName = quality}
  IN  IF hits = {} THEN [found |-> FALSE]
      ELSE [found |-> TRUE, chordType |-> ChordTypes[CHOOSE k \in hits : \A j \in hits : k <= j]]

generateVoicingsForChordType(intervals) ==
  [note \in DOMAIN NOTE_OFFSETS |-> generateVoicings(NOTE_OFFSETS[note], intervals)]

\* a fallback to the Minor tables
getVoicingsForQualityDefaultMinor(quality) ==
  LET c == ChordTypeOfShortName(quality)
  IN  IF ~c.found THEN generateVoicingsForChordType(ROOT_POSITION_INTERVALS["Minor"])
      ELSE generateVoicingsForChordType(ROOT_POSITION_INTERVALS[c.chordType])

getVoicingsForQuality(quality) ==
  LET c == ChordTypeOfShortName(quality)
  IN  IF ~c.found THEN generateVoicingsForChordType(ROOT_POSITION_INTERVALS["Major"])
      ELSE generateVoicingsForChordType(ROOT_POSITION_INTERVALS[c.chordType])

\* voicing === undefined || voicing === null
IsAbsent(voicing) == "voicing" \notin DOMAIN voicing

\* getVoicingsForQuality(quality)[baseNote] ?? {}, baseNote being one of BASE_NOTES
VoicingsOfNote(baseNote, quality) ==
  LET byNote == getVoicingsForQuality(quality)
  IN  IF baseNote \in DOMAIN byNote THEN byNote[baseNote] ELSE EmptyTable

\* a validation that looks at the note before it looks at the voicing
validateChordInputNoteFirst(baseNote, voicing, quality) ==
  IF IndexOfNote(baseNote) = -1 THEN [isValid |-> FALSE, shouldReturnEmpty |-> FALSE]
  ELSE IF IsAbsent(voicing) THEN [isValid |-> FALSE, shouldReturnEmpty |-> TRUE]
  ELSE IF DOMAIN VoicingsOfNote(baseNote, quality) = {}
       THEN [isValid |-> FALSE, shouldReturnEmpty |-> FALSE]
  ELSE [isValid |-> TRUE, shouldReturnEmpty |-> FALSE]

validateChordInput(baseNote, voicing, quality) ==
  IF IsAbsent(voicing) THEN [isValid |-> FALSE, shouldReturnEmpty |-> TRUE]
  ELSE IF IndexOfNote(baseNote) = -1 THEN [isValid |-> FALSE, shouldReturnEmpty |-> FALSE]
  ELSE IF DOMAIN VoicingsOfNote(baseNote, quality) = {}
       THEN [isValid |-> FALSE, shouldReturnEmpty |-> FALSE]
  ELSE [isValid |-> TRUE, shouldReturnEmpty |-> FALSE]

getChordTypeAndIntervals(quality) ==
  LET c == ChordTypeOfShortName(quality)
  IN  IF ~c.found THEN <<>> ELSE ROOT_POSITION_INTERVALS[c.chordType]

\* the adjustment given to the tones above the root instead of those below it
calculateOctaveAdjustmentReversed(noteIndex, baseIndex) == IF noteIndex > baseIndex THEN 1 ELSE 0

calculateOctaveAdjustment(noteIndex, baseIndex) == IF noteIndex < baseIndex THEN 1 ELSE 0

\* `${name}${octave}`
NoteWithOctave(name, octave) == name \o ToString(octave)

\* the three notes with the fifth taken from the second interval
generateChordNotesFifthFromSecond(baseNote, baseNoteIndex, intervals, pattern, baseOctave) ==
  IF Len(intervals) < 3 THEN <<>>
  ELSE
    LET secondInterval == intervals[2]
        thirdInterval == intervals[2]
        third == BASE_NOTES[((baseNoteIndex + secondInterval) % 12) + 1]
        fifth == BASE_NOTES[((baseNoteIndex + thirdInterval) % 12) + 1]
        root == BASE_NOTES[baseNoteIndex + 1]
        thirdOctaveAdjustment ==
          calculateOctaveAdjustment((baseNoteIndex + secondInterval) % 12, baseNoteIndex)
        fifthOctaveAdjustment ==
          calculateOctaveAdjustment((baseNoteIndex + thirdInterval) % 12, baseNoteIndex)
    IN  CASE pattern = 0 ->
               <<NoteWithOctave(root, baseOctave),
                 NoteWithOctave(third, baseOctave + thirdOctaveAdjustment),
                 NoteWithOctave(fifth, baseOctave + fifthOctaveAdjustment)>>
          [] pattern = 1 ->
               <<NoteWithOctave(third, baseOctave + thirdOctaveAdjustment),
                 NoteWithOctave(fifth, baseOctave + fifthOctaveAdjustment),
                 NoteWithOctave(root, baseOctave + 1)>>
          [] pattern = 2 ->
               <<NoteWithOctave(fifth, baseOctave + fifthOctaveAdjustment),
                 NoteWithOctave(root, baseOctave + 1),
                 NoteWithOctave(third, baseOctave + thirdOctaveAdjustment + 1)>>
          [] OTHER -> <<>>

\* the three notes with the root left in the octave of the entry
generateChordNotesRootNotRaised(baseNote, baseNoteIndex, intervals, pattern, baseOctave) ==
  IF Len(intervals) < 3 THEN <<>>
  ELSE
    LET secondInterval == intervals[2]
        thirdInterval == intervals[3]
        third == BASE_NOTES[((baseNoteIndex + secondInterval) % 12) + 1]
        fifth == BASE_NOTES[((baseNoteIndex + thirdInterval) % 12) + 1]
        root == BASE_NOTES[baseNoteIndex + 1]
        thirdOctaveAdjustment ==
          calculateOctaveAdjustment((baseNoteIndex + secondInterval) % 12, baseNoteIndex)
        fifthOctaveAdjustment ==
          calculateOctaveAdjustment((baseNoteIndex + thirdInterval) % 12, baseNoteIndex)
    IN  CASE pattern = 0 ->
               <<NoteWithOctave(root, baseOctave),
                 NoteWithOctave(third, baseOctave + thirdOctaveAdjustment),
                 NoteWithOctave(fifth, baseOctave + fifthOctaveAdjustment)>>
          [] pattern = 1 ->
               <<NoteWithOctave(third, baseOctave + thirdOctaveAdjustment),
                 NoteWithOctave(fifth, baseOctave + fifthOctaveAdjustment),
                 NoteWithOctave(root, baseOctave)>>
          [] pattern = 2 ->
               <<NoteWithOctave(fifth, baseOctave + fifthOctaveAdjustment),
                 NoteWithOctave(root, baseOctave),
                 NoteWithOctave(third, baseOctave + thirdOctaveAdjustment + 1)>>
          [] OTHER -> <<>>

generateChordNotes(baseNote, baseNoteIndex, intervals, pattern, baseOctave) ==
  IF Len(intervals) < 3 THEN <<>>
  ELSE
    LET secondInterval == intervals[2]
        thirdInterval == intervals[3]
        third == BASE_NOTES[((baseNoteIndex + secondInterval) % 12) + 1]
        fifth == BASE_NOTES[((baseNoteIndex + thirdInterval) % 12) + 1]
        root == BASE_NOTES[baseNoteIndex + 1]
        thirdOctaveAdjustment ==
          calculateOctaveAdjustment((baseNoteIndex + secondInterval) % 12, baseNoteIndex)
        fifthOctaveAdjustment ==
          calculateOctaveAdjustment((baseNoteIndex + thirdInterval) % 12, baseNoteIndex)
    IN  CASE pattern = 0 ->
               <<NoteWithOctave(root, baseOctave),
                 NoteWithOctave(third, baseOctave + thirdOctaveAdjustment),
                 NoteWithOctave(fifth, baseOctave + fifthOctaveAdjustment)>>
          [] pattern = 1 ->
               <<NoteWithOctave(third, baseOctave + thirdOctaveAdjustment),
                 NoteWithOctave(fifth, baseOctave + fifthOctaveAdjustment),
                 NoteWithOctave(root, baseOctave + 1)>>
          [] pattern = 2 ->
               <<NoteWithOctave(fifth, baseOctave + fifthOctaveAdjustment),
                 NoteWithOctave(root, baseOctave + 1),
                 NoteWithOctave(third, baseOctave + thirdOctaveAdjustment + 1)>>
          [] OTHER -> <<>>

\* Object.values(voicings).findIndex((v) => v.voicing === value): -1 when absent
FindVoicingIndex(table, value) ==
  LET hits == {i \in DOMAIN table : table[i].voicing = value}
  IN  IF hits = {} THEN -1 ELSE CHOOSE i \in hits : \A j \in hits : i <= j

\* notes.join(" ")
RECURSIVE JoinWithSpace(_)
JoinWithSpace(strings) ==
  IF Len(strings) = 0 THEN ""
  ELSE IF Len(strings) = 1 THEN strings[1]
  ELSE strings[1] \o " " \o JoinWithSpace(Tail(strings))

\* the pattern read from the inversion field of the entry passed by the caller
getChordNotesPatternFromEntry(baseNote, voicing, quality) ==
  LET validation == validateChordInput(baseNote, voicing, quality)
  IN  IF ~validation.isValid
      THEN (IF validation.shouldReturnEmpty THEN "" ELSE "-")
      ELSE
        LET baseNoteIndex == IndexOfNote(baseNote)
            voicingIndex_ == FindVoicingIndex(VoicingsOfNote(baseNote, quality), voicing.voicing)
        IN  IF voicingIndex_ = -1 THEN "-"
            ELSE
              LET pattern == voicing.inversion
                  intervals == getChordTypeAndIntervals(quality)
              IN  IF Len(intervals) = 0 THEN "-"
                  ELSE
                    LET chord == generateChordNotes(baseNote, baseNoteIndex, intervals,
                                                    pattern, voicing.octave)
                    IN  IF Len(chord) # 0 THEN JoinWithSpace(chord) ELSE "-"

getChordNotes(baseNote, voicing, quality) ==
  LET validation == validateChordInput(baseNote, voicing, quality)
  IN  IF ~validation.isValid
      THEN (IF validation.shouldReturnEmpty THEN "" ELSE "-")
      ELSE
        LET baseNoteIndex == IndexOfNote(baseNote)
            voicingIndex_ == FindVoicingIndex(VoicingsOfNote(baseNote, quality), voicing.voicing)
        IN  IF voicingIndex_ = -1 THEN "-"
            ELSE
              LET pattern == (voicingIndex_ + 1) % 3
                  intervals == getChordTypeAndIntervals(quality)
              IN  IF Len(intervals) = 0 THEN "-"
                  ELSE
                    LET chord == generateChordNotes(baseNote, baseNoteIndex, intervals,
                                                    pattern, voicing.octave)
                    IN  IF Len(chord) # 0 THEN JoinWithSpace(chord) ELSE "-"

(***************************************************************************)
(* Inputs of the detector.                                                 *)
(***************************************************************************)
Window == WindowLo..(WindowLo + NoteSpan)

FreeWindow == WindowLo..(WindowLo + FreeSpan)

\* every list of at most MaxFree notes, in any order, repeats allowed
FreeLists == UNION {[1..k -> FreeWindow] : k \in 0..MaxFree}

\* the notes of a set in ascending order
RECURSIVE AscSeq(_)
AscSeq(S) ==
  IF S = {} THEN <<>>
  ELSE LET m == CHOOSE x \in S : \A y \in S : x <= y
       IN  <<m>> \o AscSeq(S \ {m})

\* every chord of at most MaxChord distinct window notes, played upwards
AscLists == {AscSeq(S) : S \in {T \in SUBSET Window : Cardinality(T) <= MaxChord}}

\* an ascending chord whose lowest note arrives last
LowestLast == {Tail(a) \o <<Head(a)>> : a \in AscLists \ {<<>>}}

TriadNotes == TriadLo..(TriadLo + TriadRoots - 1)

RootPosition(n, t) ==
  LET iv == ROOT_POSITION_INTERVALS[t] IN <<n + iv[1], n + iv[2], n + iv[3]>>

FirstInversion(n, t) ==
  LET iv == ROOT_POSITION_INTERVALS[t] IN <<n + iv[2], n + iv[3], n + iv[1] + 12>>

SecondInversion(n, t) ==
  LET iv == ROOT_POSITION_INTERVALS[t] IN <<n + iv[3], n + iv[1] + 12, n + iv[2] + 12>>

\* a root-position triad followed, upwards, by the tones of E above the root
WithExtensions(n, t, E) == RootPosition(n, t) \o AscSeq({n + e : e \in E})

\* a root-position triad with the ninth inside it, or an octave higher on top
WithNinthInside(n, t) ==
  LET iv == ROOT_POSITION_INTERVALS[t] IN <<n + iv[1], n + 2, n + iv[2], n + iv[3]>>

WithNinthAbove(n, t) == Append(RootPosition(n, t), n + 14)

TriadLists ==
  UNION {
    {FirstInversion(n, t), SecondInversion(n, t), WithNinthInside(n, t), WithNinthAbove(n, t)}
      \cup {WithExtensions(n, t, E) : E \in SUBSET {9, 10, 11}}
    : n \in TriadNotes, t \in DOMAIN CHORD_DEFINITIONS}

Inputs == FreeLists \cup AscLists \cup LowestLast \cup TriadLists

(***************************************************************************)
(* The detector called on an input list.                                   *)
(***************************************************************************)
IdleVoicing ==
  /\ vNote = "C"
  /\ vQuality = "Major"
  /\ currentValue = 0
  /\ voicingIndex = 0
  /\ voicings = <<>>
  /\ vpc = "idle"

IdleCalls ==
  /\ call = [fn |-> "none"]
  /\ tables = <<>>
  /\ ret = Null
  /\ cpc = "idle"

\* the component as constructed, before any MIDI message: useRef({1: new
\* Set(), 2: new Set(), 3: new Set()}), useState({}), useState(new Set()),
\* useState(null)
IdleKeyboard ==
  /\ activeNotes = [c \in {1, 2, 3} |-> <<>>]
  /\ noteDisplayText = <<>>
  /\ keyColors = {}
  /\ bassNotes = {}
  /\ chordInfo = Null
  /\ midiMessage = Null
  /\ sounding = {}
  /\ delivered = 0

InitDetector ==
  /\ result = Null
  /\ pc = "ready"
  /\ IdleVoicing
  /\ IdleCalls
  /\ IdleKeyboard

\* the detector of utils/chord/chordDetection.ts on every input
Init ==
  /\ notes \in Inputs
  /\ impl = "chordDetection"
  /\ InitDetector

\* the detector of chordUtils.ts on the chords played upwards
InitChordUtils ==
  /\ notes \in AscLists \cup LowestLast \cup TriadLists
  /\ impl = "chordUtils"
  /\ InitDetector

CallGetChordInfo ==
  /\ pc = "ready"
  /\ result' = IF impl = "chordUtils" THEN chordUtilsGetChordInfo(notes)
                                        ELSE getChordInfo(notes)
  /\ pc' = "done"
  /\ UNCHANGED <<notes, impl>>
  /\ UNCHANGED voiVars
  /\ UNCHANGED callVars
  /\ UNCHANGED kbdVars

Next == CallGetChordInfo

(***************************************************************************)
(* getVoicingsForNote and the loop of generateVoicings.                    *)
(***************************************************************************)
NaturalNotes == DOMAIN NOTE_OFFSETS

\* the notes and qualities a caller may pass: the 12 chromatic names and a
\* string that is no note; the four qualities and a string that is none
NoteArguments == {BASE_NOTES[k] : k \in 1..Len(BASE_NOTES)} \cup {"H"}

QualityArguments == DOMAIN CHORD_DEFINITIONS \cup {"Augmented"}

IdleDetector ==
  /\ notes = <<>>
  /\ impl = "chordDetection"
  /\ result = Null
  /\ pc = "idle"

InitVoicing ==
  /\ vNote \in NoteArguments
  /\ vQuality \in QualityArguments
  /\ currentValue = 0
  /\ voicingIndex = 0
  /\ voicings = EmptyTable
  /\ vpc = "call"
  /\ IdleDetector
  /\ IdleCalls
  /\ IdleKeyboard

\* getVoicingsForNote: an empty table for an unknown quality or note, else
\* generateVoicings(baseOffset, intervals) starts
GetVoicingsForNote ==
  /\ vpc = "call"
  /\ IF vQuality \notin DOMAIN ROOT_POSITION_INTERVALS \/ vNote \notin DOMAIN NOTE_OFFSETS
     THEN /\ vpc' = "done"
          /\ UNCHANGED <<currentValue, voicingIndex, voicings>>
     ELSE /\ currentValue' = NOTE_OFFSETS[vNote]
          /\ voicingIndex' = 0
          /\ voicings' = EmptyTable
          /\ vpc' = "loop"
  /\ UNCHANGED <<vNote, vQuality>>
  /\ UNCHANGED detVars
  /\ UNCHANGED callVars
  /\ UNCHANGED kbdVars

\* one pass of while (currentValue <= 60)
VoicingPass ==
  /\ vpc = "loop"
  /\ currentValue <= LoopLimit
  /\ LET st == ForEachInterval([voicings |-> voicings, voicingIndex |-> voicingIndex],
                               currentValue, ROOT_POSITION_INTERVALS[vQuality], 1)
     IN  /\ voicings' = st.voicings
         /\ voicingIndex' = st.voicingIndex
  /\ currentValue' = currentValue + 12
  /\ UNCHANGED <<vNote, vQuality, vpc>>
  /\ UNCHANGED detVars
  /\ UNCHANGED callVars
  /\ UNCHANGED kbdVars

\* the loop ends and the table is returned
VoicingReturn ==
  /\ vpc = "loop"
  /\ currentValue > LoopLimit
  /\ vpc' = "done"
  /\ UNCHANGED <<vNote, vQuality, currentValue, voicingIndex, voicings>>
  /\ UNCHANGED detVars
  /\ UNCHANGED callVars
  /\ UNCHANGED kbdVars

NextVoicing == GetVoicingsForNote \/ VoicingPass \/ VoicingReturn

SpecVoicing == InitVoicing /\ [][NextVoicing]_vars

Spec == Init /\ [][Next]_vars

SpecChordUtils == InitChordUtils /\ [][Next]_vars

(***************************************************************************)
(* Vocabulary of the properties of the detector.                           *)
(***************************************************************************)
Qualities == DOMAIN CHORD_DEFINITIONS

Returned == pc = "done"

Identified == pc = "done" /\ ~result.isNull

\* the pitch class (0..11) of a MIDI note
PitchClass(n) == n % 12

\* "<root name> <full name of the quality>" for the root pitch class r
FullChordName(r, t) == BASE_NOTES[r + 1] \o " " \o CHORD_DEFINITIONS[t].fullName

\* the name with octave of a MIDI note: 60 is C4
NameWithOctave(n) == BASE_NOTES[PitchClass(n) + 1] \o ToString((n \div 12) - 1)

NoteSet == {notes[k] : k \in 1..Len(notes)}

LowestNote == CHOOSE x \in NoteSet : \A y \in NoteSet : x <= y

Ascending(xs) == \A k \in 1..(Len(xs) - 1) : xs[k] < xs[k + 1]

\* xs with v inserted after its first j elements
InsertAt(xs, j, v) == SubSeq(xs, 1, j) \o <<v>> \o SubSeq(xs, j + 1, Len(xs))

\* the rearrangements of a list
Rearrangements(xs) ==
  {[k \in 1..Len(xs) |-> xs[f[k]]] :
     f \in {g \in [1..Len(xs) -> 1..Len(xs)] : \A a, b \in 1..Len(xs) : a # b => g[a] # g[b]}}

\* the list without the later occurrences of a repeated number
FirstOccurrences(xs) ==
  LET keep == {k \in 1..Len(xs) : \A j \in 1..(k - 1) : xs[j] # xs[k]}
      pos == AscSeq(keep)
  IN  [k \in 1..Len(pos) |-> xs[pos[k]]]

\* taking some note of pitch class r as the candidate root, the list matches
\* a pattern of quality t
MatchesAtRoot(xs, r, t) ==
  LET intervals == calculateIntervals(UniqueSeq(xs))
  IN  \E i \in 0..(Len(intervals) - 1) :
        /\ intervals[i + 1] = r
        /\ LET m == findChordPattern(normalizeIntervals(intervals, i), BASE_NOTES[r + 1])
           IN  m.matched /\ m.chordType = t

(***************************************************************************)
(* C1. A root-position triad [n, n+b, n+c] of any root and quality is      *)
(* reported as "<root> <full quality name>", inversion "Root", bass note   *)
(* the name with octave of n, and no extension flag set.                   *)
(***************************************************************************)
C1_RootPositionTriad ==
  (Returned /\ Len(notes) = 3) =>
    \A t \in Qualities :
      LET n == notes[1]
      IN  notes = RootPosition(n, t) =>
            result = [isNull |-> FALSE,
                      chordName |-> FullChordName(PitchClass(n), t),
                      inversion |-> "Root",
                      bassNote |-> NameWithOctave(n),
                      hasSixth |-> FALSE, hasSeventh |-> FALSE,
                      hasMajorSeventh |-> FALSE, hasNinth |-> FALSE]

(***************************************************************************)
(* C2. The first inversion [n+b, n+c, n+12] and the second inversion       *)
(* [n+c, n+12, n+12+b] of a triad are reported with the triad's own root   *)
(* and quality, and with no other.                                         *)
(***************************************************************************)
C2_InversionsKeepRootAndQuality ==
  (Returned /\ Len(notes) = 3) =>
    \A t \in Qualities, n \in {notes[3] - 12, notes[2] - 12} :
      notes \in {FirstInversion(n, t), SecondInversion(n, t)} =>
        /\ ~result.isNull
        /\ result.chordName = FullChordName(PitchClass(n), t)

C2_Witness ==
  /\ Identified
  /\ notes = SecondInversion(TriadLo + 11, "Minor")
  /\ result.inversion = "2nd"

(***************************************************************************)
(* C3. The inversion text is decided by d = (pitch class of the lowest     *)
(* note - pitch class of the reported root) mod 12 alone: 0 Root, 3 or 4   *)
(* 1st, 6 or 7 2nd, 10 or 11 3rd; bassNote names the lowest note.          *)
(***************************************************************************)
C3_InversionFromLowestNote ==
  Identified => \A r \in 0..11, t \in Qualities :
    (result.chordName = FullChordName(r, t)) =>
      LET d == (PitchClass(LowestNote) - r + 12) % 12
      IN  /\ (d = 0) => result.inversion = "Root"
          /\ (d \in {3, 4}) => result.inversion = "1st"
          /\ (d \in {6, 7}) => result.inversion = "2nd"
          /\ (d \in {10, 11}) => result.inversion = "3rd"
          /\ result.bassNote = NameWithOctave(LowestNote)

\* a chord with its minor seventh in the bass, given out of ascending order
C3_Witness ==
  /\ Identified
  /\ ~Ascending(notes)
  /\ result.inversion = "3rd"
  /\ \E r \in 0..11, t \in Qualities :
       /\ result.chordName = FullChordName(r, t)
       /\ (PitchClass(LowestNote) - r + 12) % 12 = 10

(***************************************************************************)
(* C4. getChordInfo returns the same result for every rearrangement of its *)
(* input list.                                                             *)
(***************************************************************************)
C4_OrderIndependent ==
  Returned => \A p \in Rearrangements(notes) : getChordInfo(p) = result

(***************************************************************************)
(* C5. Adding an octave doubling of a sounding note to an identified       *)
(* chord, the list kept ascending, leaves the reported root and quality    *)
(* unchanged.                                                              *)
(***************************************************************************)
C5_OctaveDoublingKeepsChord ==
  (Identified /\ Ascending(notes)) =>
    \A x \in Window \ NoteSet :
      (\E y \in NoteSet : PitchClass(y) = PitchClass(x)) =>
        LET doubled == getChordInfo(AscSeq(NoteSet \cup {x}))
        IN  ~doubled.isNull /\ doubled.chordName = result.chordName

(***************************************************************************)
(* C6. A root-position triad followed upwards by any of the tones 9, 10,   *)
(* 11 above the root keeps the triad's root and quality; hasSixth,         *)
(* hasSeventh, hasMajorSeventh tell exactly which of 9, 10, 11 are there.  *)
(***************************************************************************)
C6_ExtensionFlags ==
  (Returned /\ Len(notes) >= 3) =>
    \A t \in Qualities :
      LET n == notes[1]
          E == {notes[k] - n : k \in 4..Len(notes)}
      IN  (E \subseteq {9, 10, 11} /\ notes = WithExtensions(n, t, E)) =>
            /\ ~result.isNull
            /\ result.chordName = getChordInfo(RootPosition(n, t)).chordName
            /\ result.chordName = FullChordName(PitchClass(n), t)
            /\ result.hasSixth = (9 \in E)
            /\ result.hasSeventh = (10 \in E)
            /\ result.hasMajorSeventh = (11 \in E)

C6_Witness ==
  /\ Identified
  /\ notes = WithExtensions(TriadLo + 3, "Diminished", {9, 11})
  /\ result.hasSixth /\ ~result.hasSeventh /\ result.hasMajorSeventh

(***************************************************************************)
(* C7. hasNinth holds exactly when some note lies 2 semitones (mod 12)     *)
(* above the reported root, or some note lies more than 12 semitones above *)
(* the lowest note at an offset that is 2 mod 12; and a tone 2 above the   *)
(* root never stops the chord from being matched, wherever it stands: the  *)
(* same root still matches the same quality, and a chord is returned.      *)
(***************************************************************************)
C7_NinthFlag ==
  Identified => \A r \in 0..11, t \in Qualities :
    (result.chordName = FullChordName(r, t)) =>
      /\ result.hasNinth <=>
           \/ \E x \in NoteSet : (PitchClass(x) - r + 12) % 12 = 2
           \/ \E x \in NoteSet : x - LowestNote > 12 /\ (x - LowestNote) % 12 = 2
      /\ \A x \in Window \ NoteSet, j \in 0..Len(notes) :
           (PitchClass(x) - r + 12) % 12 = 2 =>
             /\ MatchesAtRoot(InsertAt(notes, j, x), r, t)
             /\ ~getChordInfo(InsertAt(notes, j, x)).isNull

\* a Sus4 triad with its ninth inside it, between the root and the fourth
C7_Witness ==
  /\ Identified
  /\ notes = WithNinthInside(TriadLo, "Sus4")
  /\ result.hasNinth
  /\ result.chordName = FullChordName(PitchClass(TriadLo), "Sus4")

(***************************************************************************)
(* C8. Repeated MIDI numbers are dropped first: the result is that of the  *)
(* list of first occurrences, and it is null whenever fewer than 3         *)
(* distinct MIDI numbers are given.                                        *)
(***************************************************************************)
C8_DuplicatesRemoved ==
  Returned =>
    /\ result = getChordInfo(FirstOccurrences(notes))
    /\ Cardinality(NoteSet) < 3 => result = Null

\* a chord given with one of its MIDI numbers repeated
C8_Witness ==
  /\ Identified
  /\ Len(notes) = 4
  /\ Cardinality(NoteSet) = 3

(***************************************************************************)
(* Vocabulary of the properties of the voicing tables.                     *)
(***************************************************************************)
\* getVoicingsForNote has returned the table of a natural note and a quality
TableReturned ==
  vpc = "done" /\ vNote \in {"C", "D", "E", "F", "G", "A", "B"} /\ vQuality \in Qualities

\* the voicing values of the table read in index order
VoicingValues ==
  LET idx == AscSeq(DOMAIN voicings)
  IN  [k \in 1..Len(idx) |-> voicings[idx[k]].voicing]

\* the base offsets and the intervals as the specification states them
StatedOffset(n) ==
  CASE n = "C" -> -11 [] n = "D" -> -9 [] n = "E" -> -7 [] n = "F" -> -6
    [] n = "G" -> -4 [] n = "A" -> -2 [] n = "B" -> 0

StatedIntervals(t) ==
  CASE t = "Major" -> {0, 4, 7} [] t = "Minor" -> {0, 3, 7}
    [] t = "Diminished" -> {0, 3, 6} [] t = "Sus4" -> {0, 5, 7}

(***************************************************************************)
(* C9. In the table of a natural note and a quality the voicing values     *)
(* strictly increase with the index, none exceeds 60, and two entries      *)
(* whose indices differ by 3 differ in value by exactly 12.                *)
(***************************************************************************)
C9_TableIncreasing ==
  TableReturned =>
    \A i, j \in DOMAIN voicings :
      /\ voicings[i].voicing <= 60
      /\ (i < j) => voicings[i].voicing < voicings[j].voicing
      /\ (j = i + 3) => voicings[j].voicing - voicings[i].voicing = 12

\* the table of B, whose last value is 60 itself
C9_Witness ==
  /\ TableReturned
  /\ vNote = "B"
  /\ Cardinality(DOMAIN voicings) > 3
  /\ \E i \in DOMAIN voicings : voicings[i].voicing = 60

(***************************************************************************)
(* C10. The voicing values, read in index order, are exactly the ascending *)
(* list of all o + 12k + i (k >= 0, i an interval of the quality) that are *)
(* at most 60, o being the note's base offset: the first value is o, and   *)
(* for C Major the list begins -11, -7, -4, 1, 5, 8, 13.                   *)
(***************************************************************************)
C10_TableIsAllReachableValues ==
  TableReturned =>
    LET o == StatedOffset(vNote)
        reachable == {v \in {o + 12 * k + i : k \in 0..10, i \in StatedIntervals(vQuality)} :
                        v <= 60}
    IN  /\ VoicingValues = AscSeq(reachable)
        /\ VoicingValues[1] = o
        /\ (vNote = "C" /\ vQuality = "Major") =>
             SubSeq(VoicingValues, 1, 7) = <<-11, -7, -4, 1, 5, 8, 13>>

\* the table of C Major, complete up to 60
C10_Witness ==
  /\ TableReturned
  /\ vNote = "C" /\ vQuality = "Major"
  /\ Len(VoicingValues) = 18
  /\ VoicingValues[18] = 56
(***************************************************************************)
(* generateVoicings, getVoicingsForNote and getFirstVoicing called as      *)
(* functions: generateVoicings directly on a base offset and an interval   *)
(* list, getFirstVoicingForNote on a note and a quality.                   *)
(***************************************************************************)
\* the base offsets of the direct calls are -BaseBelow .. BaseAbove
BaseBelow == 12
BaseAbove == 63

BaseOffsets == (-BaseBelow)..BaseAbove

\* the interval lists of the direct calls: those of the four qualities, the
\* empty list, a dyad and a seventh chord
IntervalLists ==
  {ROOT_POSITION_INTERVALS[t] : t \in DOMAIN ROOT_POSITION_INTERVALS}
    \cup {<<>>, <<0, 7>>, <<0, 4, 7, 11>>}

\* any string may arrive as a note or a quality, also the name of a property
\* that objects inherit
AnyNote == NoteArguments \cup {"toString"}

AnyQuality == QualityArguments \cup {"constructor"}

InitTables ==
  /\ call \in {[fn |-> "generateVoicings", baseOffset |-> b, intervals |-> iv] :
                 b \in BaseOffsets, iv \in IntervalLists}
            \cup {[fn |-> "getFirstVoicingForNote", note |-> n, chordQuality |-> q] :
                    n \in AnyNote, q \in AnyQuality}
  /\ tables = EmptyTable
  /\ ret = Null
  /\ cpc = "ready"
  /\ IdleDetector
  /\ IdleVoicing
  /\ IdleKeyboard

CallGenerateVoicings ==
  /\ cpc = "ready"
  /\ call.fn = "generateVoicings"
  /\ tables' = generateVoicings(call.baseOffset, call.intervals)
  /\ cpc' = "table"
  /\ UNCHANGED <<call, ret>>
  /\ UNCHANGED detVars
  /\ UNCHANGED voiVars
  /\ UNCHANGED kbdVars

\* getFirstVoicingForNote, line 95: the table of the note, or an exception
CallGetVoicingsForNote ==
  /\ cpc = "ready"
  /\ call.fn = "getFirstVoicingForNote"
  /\ LET r == getVoicingsForNote(call.note, call.chordQuality)
     IN  /\ tables' = r.table
         /\ cpc' = IF r.threw THEN "threw" ELSE "table"
  /\ UNCHANGED <<call, ret>>
  /\ UNCHANGED detVars
  /\ UNCHANGED voiVars
  /\ UNCHANGED kbdVars

\* getFirstVoicing on the table just produced
CallGetFirstVoicing ==
  /\ cpc = "table"
  /\ ret' = getFirstVoicing(tables)
  /\ cpc' = "done"
  /\ UNCHANGED <<call, tables>>
  /\ UNCHANGED detVars
  /\ UNCHANGED voiVars
  /\ UNCHANGED kbdVars

NextTables == CallGenerateVoicings \/ CallGetVoicingsForNote \/ CallGetFirstVoicing

SpecTables == InitTables /\ [][NextTables]_vars

\* a table has been produced
TableProduced == cpc \in {"table", "done"}

(***************************************************************************)
(* C11. In every table produced by generateVoicings the entry at index i   *)
(* has inversion (i + 1) mod 3 and octave floor((i + 1) / 3), and the      *)
(* indices used are exactly 0 .. (number of entries - 1): the inversion    *)
(* cycles 1, 2, 0 from index 0 and the octave first becomes 1 at index 2.  *)
(***************************************************************************)
C11_IndexDeterminesInversionAndOctave ==
  TableProduced =>
    /\ DOMAIN tables = 0..(Cardinality(DOMAIN tables) - 1)
    /\ \A i \in DOMAIN tables :
         /\ tables[i].inversion = (i + 1) % 3
         /\ tables[i].octave = (i + 1) \div 3
         /\ (i = 0) => tables[i].inversion = 1 /\ tables[i].octave = 0
         /\ (i = 1) => tables[i].inversion = 2 /\ tables[i].octave = 0
         /\ (i = 2) => tables[i].inversion = 0 /\ tables[i].octave = 1

\* generateVoicings(0, [0, 4, 7]): 16 entries, the last of them 60
C11_Witness ==
  /\ TableProduced
  /\ call.fn = "generateVoicings"
  /\ call.baseOffset = 0 /\ call.intervals = <<0, 4, 7>>
  /\ Cardinality(DOMAIN tables) = 16
  /\ tables[15] = [voicing |-> 60, inversion |-> 1, octave |-> 5]
\* getFirstVoicingForNote has returned or has thrown
FirstVoicingCallEnded == call.fn = "getFirstVoicingForNote" /\ cpc \in {"done", "threw"}

\* the note and the quality of the call have a table
HasTable == call.note \in {"C", "D", "E", "F", "G", "A", "B"} /\ call.chordQuality \in Qualities

(***************************************************************************)
(* C12. getFirstVoicing returns the greatest voicing value below 2 of the  *)
(* table, and null when the table has no value below 2 (the empty table    *)
(* included); getFirstVoicingForNote returns a number for every natural    *)
(* note and quality, and null for a note or quality that has no table.     *)
(***************************************************************************)
C12_FirstVoicing ==
  /\ (cpc = "done") =>
       LET below == {v \in {tables[i].voicing : i \in DOMAIN tables} : v < 2}
       IN  /\ ret.isNull <=> below = {}
           /\ ~ret.isNull => ret.value \in below /\ \A v \in below : v <= ret.value
  /\ (FirstVoicingCallEnded /\ HasTable) => cpc = "done" /\ ~ret.isNull
  /\ (FirstVoicingCallEnded /\ ~HasTable) => cpc = "done" /\ ret.isNull

(***************************************************************************)
(* C15. getVoicingsForNote returns an empty table, without throwing, for   *)
(* any note that has no base offset (the sharps included) and for any      *)
(* quality outside Major, Minor, Diminished, Sus4.                         *)
(***************************************************************************)
C15_EmptyTableForUnknownNoteOrQuality ==
  (call.fn = "getFirstVoicingForNote" /\ cpc # "ready" /\ ~HasTable) =>
    cpc # "threw" /\ tables = EmptyTable
(***************************************************************************)
(* getVoicingsForQuality and getChordNotes called as the voicing list      *)
(* does: the tables of a quality short code, then the notes of one entry.  *)
(***************************************************************************)
\* entries that come from no table have a voicing value in
\* -ArgBelow .. ArgAbove and an octave in 0 .. MaxArgOctave
ArgBelow == 12
ArgAbove == 61
MaxArgOctave == 1

\* the four short codes and three strings that are none of them
ShortNameArguments == {"Maj", "Min", "Dim", "Sus", "InvalidQuality", "Major", "constructor"}

\* every entry of every table of a natural note and a quality
TableEntries ==
  UNION {{generateVoicings(NOTE_OFFSETS[n], ROOT_POSITION_INTERVALS[t])[i] :
            i \in DOMAIN generateVoicings(NOTE_OFFSETS[n], ROOT_POSITION_INTERVALS[t])} :
         n \in DOMAIN NOTE_OFFSETS, t \in DOMAIN ROOT_POSITION_INTERVALS}

VoicingArguments ==
  {Undefined, Null} \cup TableEntries
    \cup {[voicing |-> v, inversion |-> 0, octave |-> o] :
            v \in (-ArgBelow)..ArgAbove, o \in 0..MaxArgOctave}

InitChordNotes ==
  /\ call \in {[fn |-> "getChordNotes", baseNote |-> n, voicing |-> e, quality |-> q] :
                 n \in AnyNote, e \in VoicingArguments, q \in ShortNameArguments}
  /\ tables = EmptyTable
  /\ ret = Null
  /\ cpc = "ready"
  /\ IdleDetector
  /\ IdleVoicing
  /\ IdleKeyboard

CallGetVoicingsForQuality ==
  /\ cpc = "ready"
  /\ call.fn = "getChordNotes"
  /\ tables' = getVoicingsForQuality(call.quality)
  /\ cpc' = "tables"
  /\ UNCHANGED <<call, ret>>
  /\ UNCHANGED detVars
  /\ UNCHANGED voiVars
  /\ UNCHANGED kbdVars

CallGetChordNotes ==
  /\ cpc = "tables"
  /\ ret' = getChordNotes(call.baseNote, call.voicing, call.quality)
  /\ cpc' = "done"
  /\ UNCHANGED <<call, tables>>
  /\ UNCHANGED detVars
  /\ UNCHANGED voiVars
  /\ UNCHANGED kbdVars

NextChordNotes == CallGetVoicingsForQuality \/ CallGetChordNotes

SpecChordNotes == InitChordNotes /\ [][NextChordNotes]_vars

(***************************************************************************)
(* Vocabulary of the properties of getVoicingsForQuality and getChordNotes.*)
(***************************************************************************)
ShortCodes == {"Maj", "Min", "Dim", "Sus"}

NaturalNoteNames == {"C", "D", "E", "F", "G", "A", "B"}

Sharps == {"C#", "D#", "F#", "G#", "A#"}

\* the root-position intervals of a short code, as the specification states them
StatedIntervalsOf(q) ==
  CASE q = "Maj" -> <<0, 4, 7>> [] q = "Min" -> <<0, 3, 7>>
    [] q = "Dim" -> <<0, 3, 6>> [] q = "Sus" -> <<0, 5, 7>>

\* the pitch class of a natural note
StatedPitchClass(n) ==
  CASE n = "C" -> 0 [] n = "D" -> 2 [] n = "E" -> 4 [] n = "F" -> 5
    [] n = "G" -> 7 [] n = "A" -> 9 [] n = "B" -> 11

\* the chromatic name of a pitch class
NameOfPitchClass(k) == BASE_NOTES[(k % 12) + 1]

ChordNotesReturned == call.fn = "getChordNotes" /\ cpc = "done"

\* the voicing argument is an entry of the table of the note for the quality
EntryOfTable ==
  /\ call.baseNote \in NaturalNoteNames
  /\ call.quality \in ShortCodes
  /\ \E i \in DOMAIN tables[call.baseNote] : tables[call.baseNote][i] = call.voicing

\* the voicing value occurs in the table of the note for the quality
ValueInTable ==
  /\ call.baseNote \in NaturalNoteNames
  /\ call.quality \in ShortCodes
  /\ \E i \in DOMAIN tables[call.baseNote] :
        tables[call.baseNote][i].voicing = call.voicing.voicing

(***************************************************************************)
(* C13. For a natural note N, a short code Q and an entry e of N's table   *)
(* for Q, getChordNotes(N, e, Q) names exactly three notes, whose pitch    *)
(* classes are N, N + second interval and N + third interval of Q, each    *)
(* once, so that no note name with octave is repeated.                     *)
(***************************************************************************)
C13_ChordNotesNameTheTriad ==
  (ChordNotesReturned /\ EntryOfTable) =>
    LET n == StatedPitchClass(call.baseNote)
        iv == StatedIntervalsOf(call.quality)
        names == {NameOfPitchClass(n), NameOfPitchClass(n + iv[2]), NameOfPitchClass(n + iv[3])}
    IN  /\ Cardinality(names) = 3
        /\ \E x, y, z \in names :
             /\ {x, y, z} = names
             /\ \E o1, o2, o3 \in 0..9 :
                  ret = x \o ToString(o1) \o " " \o y \o ToString(o2) \o " " \o z \o ToString(o3)

\* the last entry of the table of B Diminished: "D6 F6 B6"
C13_Witness ==
  /\ ChordNotesReturned
  /\ EntryOfTable
  /\ call.baseNote = "B" /\ call.quality = "Dim"
  /\ call.voicing = [voicing |-> 60, inversion |-> 1, octave |-> 5]
  /\ ret = "D6 F6 B6"

(***************************************************************************)
(* C14. getChordNotes returns "" whenever the voicing is undefined,        *)
(* whatever the note and the quality; with a voicing it returns "-" when   *)
(* the note is not a chromatic name, when the note is a sharp, when the    *)
(* short code is unknown, and when the voicing value is not in the note's  *)
(* table for the quality; it never throws.                                 *)
(***************************************************************************)
C14_Sentinels ==
  /\ cpc # "threw"
  /\ ChordNotesReturned =>
       /\ (call.voicing = Undefined) => ret = ""
       /\ (~IsAbsent(call.voicing) /\ ~ValueInTable) => ret = "-"
       /\ (~IsAbsent(call.voicing)
             /\ (call.baseNote \notin NaturalNoteNames \/ call.quality \notin ShortCodes)) => ret = "-"

\* a natural note and a known quality with a value its table does not hold
C14_Witness ==
  /\ ChordNotesReturned
  /\ call.baseNote = "G" /\ call.quality = "Min"
  /\ ~IsAbsent(call.voicing)
  /\ ~ValueInTable
  /\ ret = "-"

(***************************************************************************)
(* C16. getVoicingsForQuality given a short code that is none of Maj, Min, *)
(* Dim, Sus returns for each of the seven natural notes the table it       *)
(* returns for Maj; given a known short code it returns tables for exactly *)
(* the seven natural notes, built from the intervals of that quality.      *)
(***************************************************************************)
C16_UnknownShortCodeGivesMajor ==
  (call.fn = "getChordNotes" /\ cpc \in {"tables", "done"}) =>
    LET intervals == IF call.quality \in ShortCodes THEN StatedIntervalsOf(call.quality)
                                                     ELSE StatedIntervalsOf("Maj")
    IN  /\ DOMAIN tables = NaturalNoteNames
        /\ \A n \in NaturalNoteNames : tables[n] = generateVoicings(StatedOffset(n), intervals)

\* an unknown short code: the table of C begins -11, -7, -4
C16_Witness ==
  /\ call.fn = "getChordNotes"
  /\ cpc = "tables"
  /\ call.quality = "InvalidQuality"
  /\ tables["C"][0].voicing = -11 /\ tables["C"][1].voicing = -7 /\ tables["C"][2].voicing = -4
(***************************************************************************)
(* The MIDI helpers called as functions: parseMIDIMessage of either module *)
(* on a byte sequence, getMIDINoteName and getBaseNoteName on an integer.  *)
(***************************************************************************)
\* a message has at most MaxBytes bytes
MaxBytes == 3
\* the integers named are -MidiBelow .. MidiAbove
MidiBelow == 30
MidiAbove == 150

\* status bytes: every high nibble on the channels 1, 3 and 16
StatusBytes == {16 * h + c : h \in 0..15, c \in {0, 2, 15}}

\* data bytes of a Uint8Array
DataBytes == {0, 1, 60, 127, 255}

ByteLists ==
  {<<>>} \cup UNION {{<<st>> \o rest : st \in StatusBytes, rest \in [1..k -> DataBytes]} :
                     k \in 0..(MaxBytes - 1)}

Timestamps == {0, 1000}

InitMidi ==
  /\ call \in {[fn |-> "parseMIDIMessage", module |-> m, data |-> d, timestamp |-> t] :
                 m \in {"midiUtils", "chordUtils"}, d \in ByteLists, t \in Timestamps}
            \cup {[fn |-> "getMIDINoteName", midiNote |-> n] : n \in (-MidiBelow)..MidiAbove}
  /\ tables = EmptyTable
  /\ ret = Null
  /\ cpc = "ready"
  /\ IdleDetector
  /\ IdleVoicing
  /\ IdleKeyboard

CallParseMIDIMessage ==
  /\ cpc = "ready"
  /\ call.fn = "parseMIDIMessage"
  /\ ret' = parseMIDIMessage(call.module, call.data, call.timestamp)
  /\ cpc' = "done"
  /\ UNCHANGED <<call, tables>>
  /\ UNCHANGED detVars
  /\ UNCHANGED voiVars
  /\ UNCHANGED kbdVars

CallGetMIDINoteName ==
  /\ cpc = "ready"
  /\ call.fn = "getMIDINoteName"
  /\ ret' = [noteName |-> getMIDINoteName(call.midiNote), baseName |-> ""]
  /\ cpc' = "named"
  /\ UNCHANGED <<call, tables>>
  /\ UNCHANGED detVars
  /\ UNCHANGED voiVars
  /\ UNCHANGED kbdVars

CallGetBaseNoteName ==
  /\ cpc = "named"
  /\ ret' = [ret EXCEPT !.baseName = getBaseNoteName(call.midiNote)]
  /\ cpc' = "done"
  /\ UNCHANGED <<call, tables>>
  /\ UNCHANGED detVars
  /\ UNCHANGED voiVars
  /\ UNCHANGED kbdVars

NextMidi == CallParseMIDIMessage \/ CallGetMIDINoteName \/ CallGetBaseNoteName

SpecMidi == InitMidi /\ [][NextMidi]_vars

(***************************************************************************)
(* Vocabulary of the properties of the MIDI helpers.                       *)
(***************************************************************************)
Parsed == call.fn = "parseMIDIMessage" /\ cpc = "done"

\* the high nibble of the status byte of a non-empty message
HighNibble == call.data[1] \div 16

NoteFieldSet == ~ret.noteNumber.isUndefined \/ ~ret.noteName.isUndefined \/ ~ret.velocity.isUndefined

ControlFieldSet == ~ret.controlNumber.isUndefined \/ ~ret.controlValue.isUndefined

(***************************************************************************)
(* C17. parseMIDIMessage classifies by the high nibble of the status byte: *)
(* 9 with velocity > 0 is note-on, 9 with velocity 0 is note-off, 8 is     *)
(* note-off, 11 is control-change, 12 is program-change, and any other     *)
(* high nibble gives a non-null record of type unknown with no field set;  *)
(* note fields are set only for note messages, control fields only for     *)
(* control-change, programNumber only for program-change.                  *)
(***************************************************************************)
C17_ClassifiedByHighNibble ==
  (Parsed /\ Len(call.data) >= 1) =>
    /\ (HighNibble \notin {8, 9, 11, 12}) => ~ret.isNull
    /\ ~ret.isNull =>
         /\ (HighNibble = 9 /\ call.data[3] > 0) => ret.type = "note-on"
         /\ (HighNibble = 9 /\ call.data[3] = 0) => ret.type = "note-off"
         /\ (HighNibble = 8) => ret.type = "note-off"
         /\ (HighNibble = 11) => ret.type = "control-change"
         /\ (HighNibble = 12) => ret.type = "program-change"
         /\ (HighNibble \notin {8, 9, 11, 12}) =>
              /\ ret.type = "unknown"
              /\ ~NoteFieldSet /\ ~ControlFieldSet /\ ret.programNumber.isUndefined
         /\ NoteFieldSet => ret.type \in {"note-on", "note-off"}
         /\ ControlFieldSet => ret.type = "control-change"
         /\ ~ret.programNumber.isUndefined => ret.type = "program-change"

\* a note-on with velocity 0, read as a note-off
C17_Witness ==
  /\ Parsed
  /\ call.data = <<146, 60, 0>>
  /\ ~ret.isNull
  /\ ret.type = "note-off"
  /\ ret.noteName = Defined("C4")
  /\ ret.channel = 3

(***************************************************************************)
(* C18. parseMIDIMessage returns null exactly when the byte sequence is    *)
(* empty, or the high nibble is 8, 9 or 11 and fewer than 3 bytes are      *)
(* present, or the high nibble is 12 and fewer than 2 bytes are present;   *)
(* every other byte sequence gives a record whose rawData is the input and *)
(* whose timestamp is the one supplied.                                    *)
(***************************************************************************)
C18_NullExactlyWhenBytesMissing ==
  Parsed =>
    LET missing == \/ Len(call.data) = 0
                   \/ HighNibble \in {8, 9, 11} /\ Len(call.data) < 3
                   \/ HighNibble = 12 /\ Len(call.data) < 2
    IN  /\ ret.isNull <=> missing
        /\ ~missing => ret.rawData = call.data /\ ret.timestamp = call.timestamp

(***************************************************************************)
(* C19. For every integer, negative and above 127 included, getMIDINoteName*)
(* returns the chromatic name at index (midiNote mod 12), taken in 0..11,  *)
(* followed by the octave floor(midiNote / 12) - 1, and getBaseNoteName    *)
(* returns that pitch-class name without the octave.                       *)
(***************************************************************************)
C19_NoteNameOfEveryInteger ==
  (call.fn = "getMIDINoteName" /\ cpc = "done") =>
    /\ ret.noteName = BASE_NOTES[(call.midiNote % 12) + 1] \o ToString((call.midiNote \div 12) - 1)
    /\ ret.baseName = BASE_NOTES[(call.midiNote % 12) + 1]
    /\ (call.midiNote = 60) => ret.noteName = "C4"
    /\ (call.midiNote = 61) => ret.noteName = "C#4"
    /\ (call.midiNote = 48) => ret.noteName = "C3"
(***************************************************************************)
(* generateInversions called on an interval list.                          *)
(***************************************************************************)
\* an interval list has at most MaxIntervalCount intervals
MaxIntervalCount == 4

\* the intervals the lists are made of: those of the four qualities
IntervalValues == {0, 3, 4, 5, 6, 7}

RootPositionLists == UNION {[1..k -> IntervalValues] : k \in 0..MaxIntervalCount}

InitInversions ==
  /\ call \in {[fn |-> "generateInversions", rootPositionIntervals |-> xs] :
                 xs \in RootPositionLists}
  /\ tables = EmptyTable
  /\ ret = Null
  /\ cpc = "ready"
  /\ IdleDetector
  /\ IdleVoicing
  /\ IdleKeyboard

CallGenerateInversions ==
  /\ cpc = "ready"
  /\ call.fn = "generateInversions"
  /\ ret' = generateInversions(call.rootPositionIntervals)
  /\ cpc' = "done"
  /\ UNCHANGED <<call, tables>>
  /\ UNCHANGED detVars
  /\ UNCHANGED voiVars
  /\ UNCHANGED kbdVars

NextInversions == CallGenerateInversions

SpecInversions == InitInversions /\ [][NextInversions]_vars

(***************************************************************************)
(* C20. For each of the four qualities with root-position intervals        *)
(* [a, b, c] the pattern library holds exactly three patterns of length 3, *)
(* in order [a, b, c], [b, c, a+12], [c, a+12, b+12]; deriving inversions  *)
(* from a list whose length is not 3 raises an error and gives no patterns.*)
(***************************************************************************)
C20_PatternLibrary ==
  /\ DOMAIN CHORD_PATTERNS = {"Major", "Minor", "Diminished", "Sus4"}
  /\ CHORD_PATTERNS["Major"] = << <<0, 4, 7>>, <<4, 7, 12>>, <<7, 12, 16>> >>
  /\ CHORD_PATTERNS["Minor"] = << <<0, 3, 7>>, <<3, 7, 12>>, <<7, 12, 15>> >>
  /\ CHORD_PATTERNS["Diminished"] = << <<0, 3, 6>>, <<3, 6, 12>>, <<6, 12, 15>> >>
  /\ CHORD_PATTERNS["Sus4"] = << <<0, 5, 7>>, <<5, 7, 12>>, <<7, 12, 17>> >>
  /\ (call.fn = "generateInversions" /\ cpc = "done") =>
       LET xs == call.rootPositionIntervals
       IN  /\ ret.threw <=> Len(xs) # 3
           /\ ret.threw => ret.inversions = <<>>
           /\ ~ret.threw =>
                /\ Len(ret.inversions) = 3
                /\ \A k \in 1..3 : Len(ret.inversions[k]) = 3
                /\ ret.inversions[1] = <<xs[1], xs[2], xs[3]>>
                /\ ret.inversions[2] = <<xs[2], xs[3], xs[1] + 12>>
                /\ ret.inversions[3] = <<xs[3], xs[1] + 12, xs[2] + 12>>

\* the inversions of the diminished triad
C20_Witness ==
  /\ call.fn = "generateInversions"
  /\ cpc = "done"
  /\ call.rootPositionIntervals = <<0, 3, 6>>
  /\ ~ret.threw
  /\ ret.inversions = << <<0, 3, 6>>, <<3, 6, 12>>, <<6, 12, 15>> >>
(***************************************************************************)
(* generateVoicings run pass by pass on any base offset and interval list. *)
(***************************************************************************)
\* lines 23-24: currentValue = baseOffset, voicingIndex = 0, an empty table
InitGenerate ==
  /\ call \in {[fn |-> "generateVoicings", baseOffset |-> b, intervals |-> iv] :
                 b \in BaseOffsets, iv \in IntervalLists}
  /\ currentValue = call.baseOffset
  /\ voicingIndex = 0
  /\ voicings = EmptyTable
  /\ vpc = "loop"
  /\ vNote = "C"
  /\ vQuality = "Major"
  /\ tables = EmptyTable
  /\ ret = Null
  /\ cpc = "idle"
  /\ IdleDetector
  /\ IdleKeyboard

\* a pass that leaves currentValue where it is
GeneratePassNoAdvance ==
  /\ vpc = "loop"
  /\ currentValue <= LoopLimit
  /\ LET st == ForEachInterval([voicings |-> voicings, voicingIndex |-> voicingIndex],
                               currentValue, call.intervals, 1)
     IN  /\ voicings' = st.voicings
         /\ voicingIndex' = st.voicingIndex
  /\ currentValue' = currentValue
  /\ UNCHANGED <<vNote, vQuality, vpc>>
  /\ UNCHANGED detVars
  /\ UNCHANGED callVars
  /\ UNCHANGED kbdVars

\* one pass of while (currentValue <= 60) on the intervals of the call
GeneratePass ==
  /\ vpc = "loop"
  /\ currentValue <= LoopLimit
  /\ LET st == ForEachInterval([voicings |-> voicings, voicingIndex |-> voicingIndex],
                               currentValue, call.intervals, 1)
     IN  /\ voicings' = st.voicings
         /\ voicingIndex' = st.voicingIndex
  /\ currentValue' = currentValue + 12
  /\ UNCHANGED <<vNote, vQuality, vpc>>
  /\ UNCHANGED detVars
  /\ UNCHANGED callVars
  /\ UNCHANGED kbdVars

\* the loop ends: return voicings
GenerateReturn ==
  /\ vpc = "loop"
  /\ currentValue > LoopLimit
  /\ vpc' = "done"
  /\ UNCHANGED <<vNote, vQuality, currentValue, voicingIndex, voicings>>
  /\ UNCHANGED detVars
  /\ UNCHANGED callVars
  /\ UNCHANGED kbdVars

NextGenerate == GeneratePass \/ GenerateReturn

\* the call runs on one thread without interruption: a pass that can be
\* taken is taken
SpecGenerate == InitGenerate /\ [][NextGenerate]_vars /\ WF_vars(NextGenerate)

(***************************************************************************)
(* C21. generateVoicings terminates for every base offset and every        *)
(* interval list: the base value of the loop grows by 12 on each pass and  *)
(* the loop stops once it exceeds 60; the empty interval list and a base   *)
(* offset above 60 give an empty table.                                    *)
(***************************************************************************)
C21_GenerateVoicingsTerminates ==
  /\ <>(vpc = "done")
  /\ [][vpc' = "loop" => currentValue' = currentValue + 12]_vars
  /\ [](vpc = "done" =>
         (currentValue > 60 /\ (currentValue = call.baseOffset \/ currentValue - 12 <= 60)))
  /\ []((vpc = "done" /\ (call.intervals = <<>> \/ call.baseOffset > 60)) => voicings = EmptyTable)

\* the empty interval list: six passes from 0, then an empty table
C21_Witness ==
  /\ vpc = "done"
  /\ call.fn = "generateVoicings"
  /\ call.baseOffset = 0 /\ call.intervals = <<>>
  /\ currentValue = 72
  /\ voicings = EmptyTable
\* the k-th note of the list xs (k from 1), taken as the root, matches a
\* pattern of quality t
CandidateMatches(xs, k, t) ==
  LET intervals == calculateIntervals(xs)
      m == findChordPattern(normalizeIntervals(intervals, k - 1), BASE_NOTES[intervals[k] + 1])
  IN  m.matched /\ m.chordType = t

\* the list xs with every note moved by d semitones
Transposed(xs, d) == [k \in 1..Len(xs) |-> xs[k] + d]

(***************************************************************************)
(* C22. getChordInfo takes the deduplicated notes as candidate roots in    *)
(* input order and returns the chord of the first candidate whose          *)
(* normalized intervals match a pattern: the reported root and quality are *)
(* those of the earliest matching note, whatever later notes would match   *)
(* (C E G A in this order is C Major with hasSixth, A C E G is A Minor     *)
(* with hasSeventh), and null is returned only when no candidate matches.  *)
(***************************************************************************)
C22_FirstCandidateWins ==
  Returned =>
    LET u == FirstOccurrences(notes)
        Candidates == {i \in 1..Len(u) : \E t \in Qualities : CandidateMatches(u, i, t)}
    IN  /\ result.isNull => Candidates = {}
        /\ Candidates # {} =>
              LET first == CHOOSE i \in Candidates : \A j \in Candidates : i <= j
              IN  /\ ~result.isNull
                  /\ \E t \in Qualities :
                       /\ CandidateMatches(u, first, t)
                       /\ result.chordName = FullChordName(PitchClass(u[first]), t)
        /\ \A o \in {0, 12, 24} :
             /\ notes = Transposed(<<60, 64, 67, 69>>, -o) =>
                  (~result.isNull /\ result.chordName = "C Major" /\ result.hasSixth)
             /\ notes = Transposed(<<57, 60, 64, 67>>, -o) =>
                  (~result.isNull /\ result.chordName = "A Minor" /\ result.hasSeventh)

\* A C E G: the first note A matches Minor with a seventh, and the second
\* note C would match Major with a sixth
C22_Witness ==
  /\ Identified
  /\ notes = <<57, 60, 64, 67>>
  /\ result.chordName = "A Minor" /\ result.hasSeventh
  /\ CandidateMatches(notes, 1, "Minor")
  /\ CandidateMatches(notes, 2, "Major")

\* the index in the note's table of the entry that holds the voicing value
IndexInTable ==
  CHOOSE i \in DOMAIN tables[call.baseNote] :
    tables[call.baseNote][i].voicing = call.voicing.voicing

\* the names of the root, the third and the fifth of the chord asked for
RootName == NameOfPitchClass(StatedPitchClass(call.baseNote))

ThirdName == NameOfPitchClass(StatedPitchClass(call.baseNote) + StatedIntervalsOf(call.quality)[2])

FifthName == NameOfPitchClass(StatedPitchClass(call.baseNote) + StatedIntervalsOf(call.quality)[3])

\* the three names in the order of pattern p
NamesInPattern(p) ==
  CASE p = 0 -> <<RootName, ThirdName, FifthName>>
    [] p = 1 -> <<ThirdName, FifthName, RootName>>
    [] p = 2 -> <<FifthName, RootName, ThirdName>>

(***************************************************************************)
(* C23. For a voicing value found at index i of the note's table,          *)
(* getChordNotes lists the notes in the order of pattern p = (i + 1) mod 3:*)
(* p = 0 root, third, fifth; p = 1 third, fifth, root; p = 2 fifth, root,  *)
(* third; the inversion field of the entry passed has no influence.        *)
(***************************************************************************)
C23_OrderFromTableIndex ==
  (ChordNotesReturned /\ ~IsAbsent(call.voicing) /\ ValueInTable) =>
    LET order == NamesInPattern((IndexInTable + 1) % 3)
    IN  /\ \E o1, o2, o3 \in 0..9 :
             ret = order[1] \o ToString(o1) \o " " \o order[2] \o ToString(o2)
                     \o " " \o order[3] \o ToString(o3)
        /\ \A inv \in 0..2 :
             getChordNotes(call.baseNote, [call.voicing EXCEPT !.inversion = inv],
                           call.quality) = ret

\* the value -7 stands at index 1 of the table of C Major (pattern 2) and is
\* passed in an entry whose inversion field says 0
C23_Witness ==
  /\ ChordNotesReturned
  /\ ~IsAbsent(call.voicing)
  /\ ValueInTable
  /\ call.baseNote = "C" /\ call.quality = "Maj"
  /\ call.voicing = [voicing |-> -7, inversion |-> 0, octave |-> 0]
  /\ IndexInTable = 1
  /\ ret = "G0 C1 E1"

\* the pitch-class indexes (0..11) of the root, the third and the fifth
RootIndex == StatedPitchClass(call.baseNote)

ThirdIndex == (RootIndex + StatedIntervalsOf(call.quality)[2]) % 12

FifthIndex == (RootIndex + StatedIntervalsOf(call.quality)[3]) % 12

\* the octave of the entry, plus 1 for a tone whose index is below the root's
WrappedOctave(toneIndex) == call.voicing.octave + (IF toneIndex < RootIndex THEN 1 ELSE 0)

\* "<root> <third> <fifth>" in the order of pattern p, with the given octaves
ChordString(p, rootOctave, thirdOctave, fifthOctave) ==
  LET r == NoteWithOctave(RootName, rootOctave)
      t == NoteWithOctave(ThirdName, thirdOctave)
      f == NoteWithOctave(FifthName, fifthOctave)
  IN  CASE p = 0 -> r \o " " \o t \o " " \o f
        [] p = 1 -> t \o " " \o f \o " " \o r
        [] p = 2 -> f \o " " \o r \o " " \o t

(***************************************************************************)
(* C24 as stated. Each tone's octave is the octave of the entry, plus 1    *)
(* exactly when the tone's pitch-class index is lower than the root's; no  *)
(* other adjustment is applied in any of the three patterns.               *)
(***************************************************************************)
C24_OctaveFromWrapOnly ==
  (ChordNotesReturned /\ ~IsAbsent(call.voicing) /\ ValueInTable) =>
    ret = ChordString((IndexInTable + 1) % 3, WrappedOctave(RootIndex),
                      WrappedOctave(ThirdIndex), WrappedOctave(FifthIndex))

(***************************************************************************)
(* C24, amended. Each tone's octave is the octave of the entry, plus 1     *)
(* when the tone's pitch-class index is lower than the root's, plus 1 more *)
(* for the tones the pattern moves above the bass: the root in patterns 1  *)
(* and 2, the third in pattern 2. In pattern 0 nothing else is added.      *)
(***************************************************************************)
C24_OctaveFromWrapAndPattern ==
  (ChordNotesReturned /\ ~IsAbsent(call.voicing) /\ ValueInTable) =>
    LET p == (IndexInTable + 1) % 3
    IN  ret = ChordString(p,
                WrappedOctave(RootIndex) + (IF p \in {1, 2} THEN 1 ELSE 0),
                WrappedOctave(ThirdIndex) + (IF p = 2 THEN 1 ELSE 0),
                WrappedOctave(FifthIndex))

\* A Major at index 1 (pattern 2): the third C# lies below A and is moved
\* above the bass, so it stands two octaves above the entry's octave
C24_Witness ==
  /\ ChordNotesReturned
  /\ ~IsAbsent(call.voicing)
  /\ ValueInTable
  /\ call.baseNote = "A" /\ call.quality = "Maj"
  /\ call.voicing = [voicing |-> 2, inversion |-> 2, octave |-> 0]
  /\ ret = "E1 A1 C#2"

(***************************************************************************)
(* C25. Whenever the reported inversion is "Root", the pitch class of the  *)
(* lowest input note is the pitch class of the reported root: a chord      *)
(* whose lowest note is not its root, such as a Sus4 chord with the fourth *)
(* in the bass, is never labelled "Root".                                  *)
(***************************************************************************)
C25_RootLabelMeansRootInBass ==
  (Identified /\ result.inversion = "Root") =>
    \E r \in 0..11, t \in Qualities :
      /\ result.chordName = FullChordName(r, t)
      /\ PitchClass(LowestNote) = r

(***************************************************************************)
(* C26. Whenever hasNinth is reported, some input note has the pitch class *)
(* 2 semitones above the reported root: the comparison with the lowest     *)
(* note never raises the flag for a tone that is not the root's ninth.     *)
(***************************************************************************)
C26_NinthFlagMeansNinthPresent ==
  (Identified /\ result.hasNinth) =>
    \E r \in 0..11, t \in Qualities :
      /\ result.chordName = FullChordName(r, t)
      /\ \E x \in NoteSet : PitchClass(x) = (r + 2) % 12

\* the position in the deduplicated list xs of the first note that matches a
\* pattern when taken as the root
FirstCandidate(xs) ==
  LET u == FirstOccurrences(xs)
  IN  CHOOSE i \in 1..Len(u) :
        /\ \E t \in Qualities : CandidateMatches(u, i, t)
        /\ \A j \in 1..(i - 1) : \A t \in Qualities : ~CandidateMatches(u, j, t)

\* the quality and the root name that getChordInfo matches the list xs to
MatchedQuality(xs) ==
  CHOOSE t \in Qualities : CandidateMatches(FirstOccurrences(xs), FirstCandidate(xs), t)

MatchedRootName(xs) == BASE_NOTES[PitchClass(FirstOccurrences(xs)[FirstCandidate(xs)]) + 1]

\* the texts a chord name may carry after the root name and the space
QualityTexts ==
  {CHORD_DEFINITIONS[t].fullName : t \in Qualities}
    \cup {CHORD_DEFINITIONS[t].shortName : t \in Qualities}

(***************************************************************************)
(* C27. The text of chordName after the root name and the space depends on *)
(* the matched quality alone: the input and the root-position triad of the *)
(* same quality on any of the twelve roots carry the same text; a Sus4     *)
(* chord on G is named like a Sus4 chord on any other root.                *)
(***************************************************************************)
C27_QualityTextFromQualityAlone ==
  Identified =>
    \A n \in TriadLo..(TriadLo + 11) :
      LET other == RootPosition(n, MatchedQuality(notes))
          named == ChordInfoOf(impl, other)
      IN  /\ ~named.isNull
          /\ MatchedQuality(other) = MatchedQuality(notes)
          /\ \E txt \in QualityTexts :
               /\ result.chordName = MatchedRootName(notes) \o " " \o txt
               /\ named.chordName = MatchedRootName(other) \o " " \o txt

\* the MIDI numbers 12 * (octave + 1) + pitch-class index of the chord's three
\* pitch classes in the octave of the entry and the two octaves above it
NoteNumbers ==
  {12 * (o + 1) + k : o \in call.voicing.octave..(call.voicing.octave + 2),
                      k \in {RootIndex, ThirdIndex, FifthIndex}}

\* the returned string lists the names of the MIDI numbers m1, m2, m3
ReadsAs(m1, m2, m3) ==
  ret = getMIDINoteName(m1) \o " " \o getMIDINoteName(m2) \o " " \o getMIDINoteName(m3)

\* the full name of the quality of a short code
FullNameOf(q) ==
  CASE q = "Maj" -> "Major" [] q = "Min" -> "Minor"
    [] q = "Dim" -> "Diminished" [] q = "Sus" -> "Sus4"

(***************************************************************************)
(* C28. The generator and the detector agree: for a natural note N, a      *)
(* short code Q and an entry e of N's table, the three names returned by   *)
(* getChordNotes(N, e, Q), read back as MIDI numbers 12 * (octave + 1) +   *)
(* pitch-class index and given in the listed order to getChordInfo, are    *)
(* reported as the chord of root N and quality Q.                          *)
(***************************************************************************)
C28_DetectorReadsGeneratedChord ==
  (ChordNotesReturned /\ EntryOfTable) =>
    \E m1, m2, m3 \in NoteNumbers :
      /\ ReadsAs(m1, m2, m3)
      /\ LET info == getChordInfo(<<m1, m2, m3>>)
         IN  /\ ~info.isNull
             /\ info.chordName = call.baseNote \o " " \o FullNameOf(call.quality)

\* "G2 A2 D3", the first inversion of D Sus4, is read back as D Sus4
C28_Witness ==
  /\ ChordNotesReturned
  /\ EntryOfTable
  /\ call.baseNote = "D" /\ call.quality = "Sus"
  /\ call.voicing.voicing = 15
  /\ ret = "G2 A2 D3"
  /\ ReadsAs(43, 45, 50)
  /\ getChordInfo(<<43, 45, 50>>).chordName = "D Sus4"

(***************************************************************************)
(* C29. For a natural note, a short code and an entry of the note's table, *)
(* the three notes returned by getChordNotes, each read as 12 * octave +   *)
(* pitch-class index, are strictly ascending, and the highest lies less    *)
(* than 12 semitones above the lowest.                                     *)
(***************************************************************************)
C29_ClosePositionAscending ==
  (ChordNotesReturned /\ EntryOfTable) =>
    \E m1, m2, m3 \in NoteNumbers :
      /\ ReadsAs(m1, m2, m3)
      /\ (m1 - 12) < (m2 - 12) /\ (m2 - 12) < (m3 - 12)
      /\ (m3 - 12) - (m1 - 12) < 12

\* "F4 G#4 C5": the fifth C has a lower pitch-class index than the root F
\* and stands one octave number higher
C29_Witness ==
  /\ ChordNotesReturned
  /\ EntryOfTable
  /\ call.baseNote = "F" /\ call.quality = "Min"
  /\ call.voicing.voicing = 37
  /\ ret = "F4 G#4 C5"
  /\ ReadsAs(65, 68, 72)

(***************************************************************************)
(* PianoKeyboard.tsx: the MIDI handler of the component. JavaScript runs   *)
(* each onmidimessage callback to its end before the next one starts, so a *)
(* callback is one step. A Set keeps its members in insertion order and    *)
(* Array.from lists them in that order: a Set is a list without repeats.   *)
(***************************************************************************)
MaxMessages == 4
ChannelNibbles == 3
OnVelocity == 100

\* status bytes of note-off, note-on and control-change messages on the
\* channels 1, 2, 3 (the keys of the initial record) and the channel after
KeyboardStatusBytes == {16 * h + c : h \in {8, 9, 11}, c \in 0..ChannelNibbles}

\* note numbers sent: the lowest MIDI note and the notes of a C major triad
KeyboardNotes == {0, 60, 64, 67}

\* event.data: a status byte followed by at most a note byte and a velocity
KeyboardByteLists ==
  {<<st>> : st \in KeyboardStatusBytes}
    \cup {<<st, n>> : st \in KeyboardStatusBytes, n \in KeyboardNotes}
    \cup {<<st, n, v>> : st \in KeyboardStatusBytes, n \in KeyboardNotes, v \in {0, OnVelocity}}

\* channelNotes.add(noteNumber)
SetAdd(members, v) ==
  IF \E k \in 1..Len(members) : members[k] = v THEN members ELSE Append(members, v)

\* channelNotes.delete(noteNumber)
SetDelete(members, v) == SelectSeq(members, LAMBDA x : x # v)

\* updatedNotes[channel] ?? new Set()
NotesOfChannel(record, channel) ==
  IF channel \in DOMAIN record THEN record[channel] ELSE <<>>

\* fullNoteName.slice(0, -1): the name without its last character
SliceLastCharacter(midiNote) ==
  LET octave == (midiNote \div 12) - 1
      base == NoteAt(JsMod(midiNote, 12))
  IN  IF octave < 0 THEN base \o "-"
      ELSE IF octave < 10 THEN base
      ELSE base \o ToString(octave \div 10)

\* newDisplayText of updateKeyboardDisplay: a later note of the same key
\* overwrites an earlier one
RECURSIVE DisplayTextOf(_)
DisplayTextOf(members) ==
  IF Len(members) = 0 THEN <<>>
  ELSE LET before == DisplayTextOf(SubSeq(members, 1, Len(members) - 1))
           last == members[Len(members)]
           key == SliceLastCharacter(last)
       IN  [k \in DOMAIN before \cup {key} |->
              IF k = key THEN getMIDINoteName(last) ELSE before[k]]

\* the keys that updateKeyboardDisplay and updateBassNotesDisplay name
KeysOf(members) == {SliceLastCharacter(members[k]) : k \in 1..Len(members)}

\* updateChordInfo: notes.length > 0 ? getChordInfo(notes) : null, with the
\* getChordInfo of chordUtils.ts
updateChordInfo(members) ==
  IF Len(members) > 0 THEN chordUtilsGetChordInfo(members) ELSE Null

\* !noteNumber: the note number is undefined or 0
NoNoteNumber(message) == message.noteNumber.isUndefined \/ message.noteNumber.value = 0

\* the pairs <<channel, note>> whose most recent note message is a note-on,
\* after the message is delivered
SoundingAfter(message) ==
  IF message.isNull \/ message.noteNumber.isUndefined THEN sounding
  ELSE IF message.type = "note-on"
       THEN sounding \cup {<<message.channel, message.noteNumber.value>>}
       ELSE IF message.type = "note-off"
            THEN sounding \ {<<message.channel, message.noteNumber.value>>}
            ELSE sounding

InitKeyboard ==
  /\ IdleKeyboard
  /\ IdleDetector
  /\ IdleVoicing
  /\ IdleCalls

\* handleMIDINote(midiMessage)
handleMIDINote(message) ==
  LET isNoteOn == message.type = "note-on"
      isNoteOff == message.type = "note-off"
      channel == message.channel
  IN  IF NoNoteNumber(message)
      THEN UNCHANGED <<activeNotes, noteDisplayText, keyColors, bassNotes, chordInfo>>
      ELSE
        LET noteNumber == message.noteNumber.value
            before == NotesOfChannel(activeNotes, channel)
            channelNotes == IF isNoteOn THEN SetAdd(before, noteNumber)
                            ELSE IF isNoteOff THEN SetDelete(before, noteNumber)
                            ELSE before
        IN  /\ activeNotes' = [c \in DOMAIN activeNotes \cup {channel} |->
                                 IF c = channel THEN channelNotes ELSE activeNotes[c]]
            /\ IF channel = 1
               THEN /\ noteDisplayText' = DisplayTextOf(channelNotes)
                    /\ keyColors' = KeysOf(channelNotes)
                    /\ UNCHANGED <<bassNotes, chordInfo>>
               ELSE IF channel = 2
               THEN /\ bassNotes' = KeysOf(channelNotes)
                    /\ UNCHANGED <<noteDisplayText, keyColors, chordInfo>>
               ELSE IF channel = 3
               THEN /\ chordInfo' = updateChordInfo(channelNotes)
                    /\ UNCHANGED <<noteDisplayText, keyColors, bassNotes>>
               ELSE UNCHANGED <<noteDisplayText, keyColors, bassNotes, chordInfo>>

\* input.onmidimessage: a message that does not parse is dropped
OnMidiMessage ==
  /\ delivered < MaxMessages
  /\ \E data \in KeyboardByteLists :
       LET parsed == chordUtilsParseMIDIMessage(data, 0)
       IN  /\ midiMessage' = parsed
           /\ sounding' = SoundingAfter(parsed)
           /\ IF parsed.isNull
              THEN UNCHANGED <<activeNotes, noteDisplayText, keyColors, bassNotes, chordInfo>>
              ELSE handleMIDINote(parsed)
  /\ delivered' = delivered + 1
  /\ UNCHANGED detVars
  /\ UNCHANGED voiVars
  /\ UNCHANGED callVars

NextKeyboard == OnMidiMessage

SpecKeyboard == InitKeyboard /\ [][NextKeyboard]_vars

\* the set of the notes active on a channel: empty for a channel without a set
ActiveSet(c) ==
  {NotesOfChannel(activeNotes, c)[k] : k \in 1..Len(NotesOfChannel(activeNotes, c))}

MidiChannels == 1..16

(***************************************************************************)
(* C30. After any sequence of parsed note-on and note-off messages, a note *)
(* n of 0..127 is in the active set of channel c exactly when the most     *)
(* recent note message for (c, n) was a note-on (velocity 0 counts as      *)
(* note-off); a message for one channel changes no other channel's set;    *)
(* and when every note-on has been followed by its note-off all sets are   *)
(* empty.                                                                  *)
(***************************************************************************)
C30_ActiveSetsFollowNoteMessages ==
  /\ [](\A c \in MidiChannels, n \in 0..127 : (n \in ActiveSet(c)) <=> (<<c, n>> \in sounding))
  /\ [](sounding = {} => \A c \in MidiChannels : ActiveSet(c) = {})
  /\ [][\A c \in MidiChannels :
          (midiMessage'.isNull \/ c # midiMessage'.channel) =>
            NotesOfChannel(activeNotes', c) = NotesOfChannel(activeNotes, c)]_vars

====
